---- MODULE Spec2Model ----
(***************************************************************************)
(* Model of the ai-web-chat-app backend: the user directory and signup     *)
(* codes (backend/models.py), the auth endpoints (backend/auth.py), the    *)
(* admin endpoints (backend/admin.py), the audit-log store and its queries *)
(* (backend/logs.py) and the chat endpoints that write to it               *)
(* (backend/app.py).                                                       *)
(*                                                                         *)
(* Strings are sequences of one-character strings, so that strip(),        *)
(* lower(), len() and the regular expressions of the code are computed.    *)
(* A request is one action, except where the handler reads, then commits   *)
(* later: there the read and each commit are separate steps, and requests  *)
(* of different clients interleave between them.                           *)
(***************************************************************************)
EXTENDS Integers, Sequences, FiniteSets, TLC

VARIABLES
    users,        \* table users: id -> row (models.py User)
    codes,        \* table signup_codes: id -> row (models.py SignupCode)
    searchLogs,   \* table search_logs: set of rows
    userActions,  \* table user_actions: set of rows
    loginLogs,    \* table login_logs: set of rows
    session,      \* per client: the user id held by the session cookie, 0 = none
    req,          \* per client: the request in flight between two of its steps
    resp,         \* the last response sent
    now,          \* datetime.utcnow(), in days
    env,          \* what the process finds around it: configuration, credentials, tools
    aws,          \* the globals of app.py and aws_credentials.py and the manager's fields
    getting,      \* per thread: its call of get_session in flight
    invoked,      \* the last return of invoke_llama / invoke_titan_image
    provider,     \* the provider calls the last step made
    files,        \* the upload directory: the paths that exist
    upload,       \* per request: the upload in flight between save and cleanup
    job           \* the call of _wait_for_textract_job in flight: its clock and checks

appVars == <<env, aws, getting, invoked, provider, files, upload, job>>
vars == <<users, codes, searchLogs, userActions, loginLogs, session, req, resp, now, appVars>>

----------------------------------------------------------------------------
\* Bounds of the model

MaxUsers == 3
MaxCodes == 2
MaxTime == 1
MaxActionRows == 3
MaxLoginRows == 2
MaxSearchRows == 2

Clients == {"c1", "c2"}

----------------------------------------------------------------------------
\* Strings

LowerLetters == {"a","b","c","d","e","f","g","h","i","j","k","l","m",
                 "n","o","p","q","r","s","t","u","v","w","x","y","z"}
UpperLetters == {"A","B","C","D","E","F","G","H","I","J","K","L","M",
                 "N","O","P","Q","R","S","T","U","V","W","X","Y","Z"}
Letters == LowerLetters \cup UpperLetters
Digits == {"0","1","2","3","4","5","6","7","8","9"}
Whitespace == {" "}

\* str.lower() on one character (the upper-case letters the inputs use)
LowerChar(ch) ==
    CASE ch = "A" -> "a" [] ch = "B" -> "b" [] ch = "C" -> "c"
      [] ch = "X" -> "x" [] ch = "Y" -> "y" [] ch = "Z" -> "z"
      [] OTHER -> ch

Lower(s) == [i \in 1..Len(s) |-> LowerChar(s[i])]

RECURSIVE LStrip(_)
LStrip(s) == IF s # <<>> /\ Head(s) \in Whitespace THEN LStrip(Tail(s)) ELSE s

RECURSIVE RStrip(_)
RStrip(s) ==
    IF s # <<>> /\ s[Len(s)] \in Whitespace THEN RStrip(SubSeq(s, 1, Len(s) - 1)) ELSE s

Strip(s) == RStrip(LStrip(s))

\* auth.py validate_email: ^[a-zA-Z0-9._%+-]+@[a-zA-Z0-9.-]+\.[a-zA-Z]{2,}$
EmailLocalChars == Letters \cup Digits \cup {".", "_", "%", "+", "-"}
EmailDomainChars == Letters \cup Digits \cup {".", "-"}
MinTldLen == 2

validate_email(email) ==
    \E i \in 1..Len(email) : \E j \in 1..Len(email) :
        /\ email[i] = "@"
        /\ email[j] = "."
        /\ i > 1
        /\ j > i + 1
        /\ Len(email) - j >= MinTldLen
        /\ \A k \in 1..(i - 1) : email[k] \in EmailLocalChars
        /\ \A k \in (i + 1)..(j - 1) : email[k] \in EmailDomainChars
        /\ \A k \in (j + 1)..Len(email) : email[k] \in Letters

\* auth.py validate_password: the message of the first rule violated, or ""
MinPasswordLen == 8

\* characters outside ASCII are written by their code point: a letter (e acute)
\* and a decimal digit (Arabic-Indic three); \d of a str pattern matches every
\* Unicode decimal digit, [A-Za-z] matches the ASCII letters only
OtherLetters == {"U+00E9"}
OtherDigits == {"U+0663"}
DecimalDigits == Digits \cup OtherDigits

PasswordErrorLengthOnly(password) ==
    IF Len(password) < MinPasswordLen THEN "Password must be at least 8 characters long"
    ELSE ""

PasswordError(password) ==
    IF Len(password) < MinPasswordLen THEN "Password must be at least 8 characters long"
    ELSE IF ~ \E k \in 1..Len(password) : password[k] \in Letters
        THEN "Password must contain at least one letter"
    ELSE IF ~ \E k \in 1..Len(password) : password[k] \in DecimalDigits
        THEN "Password must contain at least one number"
    ELSE ""

validate_password(password) == PasswordError(password) = ""

\* models.py set_password / check_password: the hash is kept, never the password
generate_password_hash(password) == <<"pbkdf2", password>>
check_password_hash(hash, password) == hash = generate_password_hash(password)

MinUsernameLen == 3

----------------------------------------------------------------------------
\* Inputs

\* the account and the signup code that create_admin.py makes; the code is valid
\* for seven days, and the model starts when it has one day left
AdminName == <<"a","d","m","i","n">>
AdminEmail == <<"a","d","m","i","n","@","e","x","a","m","p","l","e",".","c","o","m">>
SeedCodeExpiry == 1
AdminPassword == <<"a","d","m","i","n","1","2","3">>

NameAnn == <<"a","n","n">>
NameBobPadded == <<" ","b","o","b">>
EmailAnn == <<"a","@","x",".","c","o">>
EmailBobUpper == <<"B","@","x",".","c","o">>
PwGood == <<"a","b","c","1","2","3","4","5">>
LoginNames == {AdminName, NameAnn, Strip(NameBobPadded), EmailAnn}
LoginPasswords == {AdminPassword, PwGood}
TtlDays == {1, 2}

----------------------------------------------------------------------------
\* The relational store

NoUser == 0
NullTime == -1
NoCode == 0

SetMax(S) == CHOOSE x \in S : \A y \in S : y <= x

\* SQLite INTEGER PRIMARY KEY without AUTOINCREMENT: one more than the largest id
NextId(ids) == IF ids = {} THEN 1 ELSE SetMax(ids) + 1

RowIds(table) == {r.id : r \in table}

\* models.py User; via is a history field: the signup code presented at registration
NewUser(username, email, password, is_admin, via) ==
    [username |-> username, email |-> email,
     password_hash |-> generate_password_hash(password),
     is_active |-> TRUE, is_admin |-> is_admin, last_login |-> NullTime, via |-> via]

Put(table, id, row) == [k \in DOMAIN table \cup {id} |-> IF k = id THEN row ELSE table[k]]
Drop(table, id) == [k \in DOMAIN table \ {id} |-> table[k]]

UniqueUsernameOnly(table) ==
    \A a \in DOMAIN table : \A b \in DOMAIN table :
        a # b => table[a].username # table[b].username

\* users.username and users.email are UNIQUE columns: a commit that breaks either
\* raises IntegrityError
UniqueOk(table) ==
    \A a \in DOMAIN table : \A b \in DOMAIN table :
        a # b => /\ table[a].username # table[b].username
                 /\ table[a].email # table[b].email

ByUsername(username) == {id \in DOMAIN users : users[id].username = username}
ByEmail(email) == {id \in DOMAIN users : users[id].email = email}

\* models.py SignupCode.is_valid, of a row at a time
RowIsValid(row, utcnow) == row.used_by_user_id = NoUser /\ row.expires_at > utcnow
is_valid(code) == RowIsValid(codes[code], now)

\* flask_login: current_user is reloaded from the session cookie by load_user on
\* every request; UserMixin.is_authenticated is the row's is_active
current_user(c) == IF session[c] \in DOMAIN users THEN session[c] ELSE NoUser
is_authenticated(c) == current_user(c) # NoUser /\ users[current_user(c)].is_active

\* login_manager.login_view is set: login_required answers an unauthenticated
\* caller with a redirect to the login view
UnauthorizedStatus == 302

ActionRow(uid, action_type) ==
    [id |-> NextId(RowIds(userActions)), user_id |-> uid,
     action_type |-> action_type, timestamp |-> now]

LoginRow(username, success, uid, failure_reason) ==
    [id |-> NextId(RowIds(loginLogs)), user_id |-> uid, username_attempted |-> username,
     success |-> success, failure_reason |-> failure_reason, login_time |-> now]

SearchRow(uid, search_type, response) ==
    [id |-> NextId(RowIds(searchLogs)), user_id |-> uid, search_type |-> search_type,
     response |-> response, timestamp |-> now]

\* The tables are bounded: a request that would append to a full table is not taken
RoomFor(table, max) == Cardinality(table) < max

----------------------------------------------------------------------------
\* Requests and responses

Idle == [op |-> "idle", pc |-> "idle", actor |-> NoUser, target |-> NoUser,
         username |-> <<>>, email |-> <<>>, password |-> <<>>, code |-> NoCode,
         is_active |-> "keep", is_admin |-> "keep"]

NoBody == [kind |-> "none"]

Reply(op, status, error) ==
    [op |-> op, status |-> status, error |-> error, body |-> NoBody]

----------------------------------------------------------------------------
\* aws_credentials.py: the credential manager, and the globals app.py sets at import

None == <<>>
Threads == {"t1", "t2"}
UploadRequests == {"r1", "r2"}
MaxSessions == 2

\* what sts get_caller_identity answers for the credentials of one source
StsOutcomes == {"identity", "NoCredentialsError", "AccessDenied", "InvalidClientTokenId"}
CredentialCodes == {"InvalidUserID.NotFound", "AccessDenied", "SignatureDoesNotMatch"}

\* the exception _test_credentials raises, "" when the identity call passes
test_credentials(sts) ==
    IF sts = "identity" THEN ""
    ELSE IF sts = "NoCredentialsError" \/ sts \in CredentialCodes THEN "NoCredentialsError"
    ELSE "ClientError"

ProfileSource(profile_name) == <<"AWS Profile", profile_name>>
ChainSource == <<"AWS Credential Chain">>
KeysSource == <<"Environment Variables">>
Remediation == "No valid AWS credentials found. Please configure credentials using: ..."

Created(source, tested) == [raised |-> "", message |-> "", source |-> source, tested |-> tested]
Raised(exception, message, tested) ==
    [raised |-> exception, message |-> message, source |-> None, tested |-> tested]

\* _create_session from its third source on: the access key pair of the environment
FromKeys(e, tested) ==
    IF e.keys = "unset" THEN Raised("NoCredentialsError", Remediation, tested)
    ELSE LET failure == test_credentials(e.keys)
         IN  IF failure = "" THEN Created(KeysSource, tested \o <<"keys">>)
             ELSE IF failure = "NoCredentialsError"
               THEN Raised("NoCredentialsError", Remediation, tested \o <<"keys">>)
             ELSE Raised(failure, "", tested \o <<"keys">>)

\* _create_session from its second source on: the default credential chain
FromChain(e, tested) ==
    LET failure == test_credentials(e.chain)
    IN  IF failure = "" THEN Created(ChainSource, tested \o <<"chain">>)
        ELSE IF failure = "NoCredentialsError" THEN FromKeys(e, tested \o <<"chain">>)
        ELSE Raised(failure, "", tested \o <<"chain">>)

\* _create_session: the source recorded, or the exception that leaves it; only
\* ProfileNotFound and NoCredentialsError let it go on to the next source
create_session(profile_name, e) ==
    IF profile_name = "" THEN FromChain(e, <<>>)
    ELSE LET failure == IF e.profile = "ProfileNotFound" THEN "ProfileNotFound"
                        ELSE test_credentials(e.profile)
         IN  IF failure = "" THEN Created(ProfileSource(profile_name), <<"profile">>)
             ELSE IF failure \in {"ProfileNotFound", "NoCredentialsError"}
               THEN FromChain(e, <<"profile">>)
             ELSE Raised(failure, "", <<"profile">>)

\* what sts answers for the credentials a session was made from
StsOf(source, e) ==
    IF source = KeysSource THEN e.keys
    ELSE IF source = ChainSource THEN e.chain
    ELSE e.profile

\* the module-level block of app.py: get_credential_manager, get_bedrock_client and
\* the three other clients; any exception leaves bedrock_runtime None
Imported(e) ==
    LET made == create_session(e.AWS_PROFILE, e)
        ok == made.raised = ""
    IN  [credential_manager |-> TRUE,
         profile_name |-> e.AWS_PROFILE,
         session |-> IF ok THEN 1 ELSE 0,
         credentials_source |-> made.source,
         bedrock_runtime |-> ok,
         vision_clients |-> ok,
         sessions |-> IF ok THEN 1 ELSE 0]

\* an environment without credentials, bucket or .doc tools
BareEnv ==
    [AWS_PROFILE |-> "", profile |-> "ProfileNotFound", chain |-> "NoCredentialsError",
     keys |-> "unset", TEXTRACT_S3_BUCKET |-> "", tools |-> {}]

\* a thread outside get_session, and how its last call of it ended
Left(raised, message) == [pc |-> "idle", raised |-> raised, message |-> message]
NotGetting == Left("", "")
NotInvoked == [fn |-> "none", raised |-> FALSE, value |-> [none |-> ""]]
NoUpload == [pc |-> "idle"]
NoJob == [pc |-> "idle"]

InitDb ==
    /\ users = Put(<<>>, 1, NewUser(AdminName, AdminEmail, AdminPassword, TRUE, NoCode))
    /\ codes = Put(<<>>, 1, [expires_at |-> SeedCodeExpiry, used_by_user_id |-> NoUser])
    /\ searchLogs = {}
    /\ userActions = {}
    /\ loginLogs = {}
    /\ session = [c \in Clients |-> NoUser]
    /\ req = [c \in Clients |-> Idle]
    /\ resp = Reply("none", 0, "")
    /\ now = 0

\* the process started in this environment
InitApp(e) ==
    /\ env = e
    /\ aws = Imported(e)
    /\ getting = [t \in Threads |-> NotGetting]
    /\ invoked = NotInvoked
    /\ provider = {}
    /\ files = {}
    /\ upload = [r \in UploadRequests |-> NoUpload]
    /\ job = NoJob

Init == InitDb /\ InitApp(BareEnv)

\* time passes
Tick ==
    /\ now < MaxTime
    /\ now' = now + 1
    /\ UNCHANGED <<users, codes, searchLogs, userActions, loginLogs, session, req, resp, appVars>>

----------------------------------------------------------------------------
\* auth.py register

RegisterError(username, email, password, code) ==
    IF username = <<>> \/ email = <<>> \/ password = <<>> \/ code = NoCode
        THEN "Username, email, password, and signup code are required"
    ELSE IF Len(username) < MinUsernameLen
        THEN "Username must be at least 3 characters long"
    ELSE IF ~ validate_email(email) THEN "Invalid email format"
    ELSE IF ~ validate_password(password) THEN PasswordError(password)
    ELSE IF code \notin DOMAIN codes \/ ~ is_valid(code) THEN "Invalid or expired signup code"
    ELSE IF ByUsername(username) # {} THEN "Username already exists"
    ELSE IF ByEmail(email) # {} THEN "Email already registered"
    ELSE ""

\* lines 63-97: the validation and the reads of the code and of the two uniqueness checks
RegisterCheck(c, username_in, email_in, password, code) ==
    LET username == Strip(username_in)
        email == Lower(Strip(email_in))
        error == RegisterError(username, email, password, code)
    IN  /\ req[c].pc = "idle"
        /\ IF error # ""
             THEN /\ resp' = Reply("register", 400, error)
                  /\ req' = req
             ELSE /\ req' = [req EXCEPT ![c] = [Idle EXCEPT !.op = "register",
                                 !.pc = "create", !.username = username, !.email = email,
                                 !.password = password, !.code = code]]
                  /\ resp' = resp
        /\ UNCHANGED <<users, codes, searchLogs, userActions, loginLogs, session, now, appVars>>

\* lines 99-104: the user is inserted and committed; IntegrityError goes to the
\* handler's except clause (rollback, 500)
RegisterCreateUser(c) ==
    LET r == req[c]
        id == NextId(DOMAIN users)
        table == Put(users, id, NewUser(r.username, r.email, r.password, FALSE, r.code))
    IN  /\ r.op = "register" /\ r.pc = "create"
        /\ id <= MaxUsers
        /\ IF UniqueOk(table)
             THEN /\ users' = table
                  /\ req' = [req EXCEPT ![c].pc = "use_code", ![c].target = id]
                  /\ resp' = resp
             ELSE /\ users' = users
                  /\ req' = [req EXCEPT ![c] = Idle]
                  /\ resp' = Reply("register", 500, "Registration failed: IntegrityError")
        /\ UNCHANGED <<codes, searchLogs, userActions, loginLogs, session, now, appVars>>

RegisterUseCodeLoggingIn(c) ==
    LET r == req[c]
    IN  /\ r.op = "register" /\ r.pc = "use_code"
        /\ r.target \in DOMAIN users
        /\ RoomFor(userActions, MaxActionRows)
        /\ codes' = [codes EXCEPT ![r.code].used_by_user_id = r.target]
        /\ userActions' = userActions \cup {ActionRow(r.target, "register")}
        /\ req' = [req EXCEPT ![c] = Idle]
        /\ resp' = Reply("register", 201, "")
        /\ session' = [session EXCEPT ![c] = r.target]
        /\ UNCHANGED <<users, searchLogs, loginLogs, now, appVars>>

\* lines 106-125: the code is marked used and the register action logged, in a
\* second commit
RegisterUseCode(c) ==
    LET r == req[c]
    IN  /\ r.op = "register" /\ r.pc = "use_code"
        /\ r.target \in DOMAIN users
        /\ RoomFor(userActions, MaxActionRows)
        /\ codes' = [codes EXCEPT ![r.code].used_by_user_id = r.target]
        /\ userActions' = userActions \cup {ActionRow(r.target, "register")}
        /\ req' = [req EXCEPT ![c] = Idle]
        /\ resp' = Reply("register", 201, "")
        /\ UNCHANGED <<users, searchLogs, loginLogs, session, now, appVars>>

\* lines 127-129: the second commit raises (the database is locked, the connection
\* is lost): rollback of the uncommitted changes, 500; the user of line 104 stays
RegisterFault(c) ==
    LET r == req[c]
    IN  /\ r.op = "register" /\ r.pc = "use_code"
        /\ req' = [req EXCEPT ![c] = Idle]
        /\ resp' = Reply("register", 500, "Registration failed: OperationalError")
        /\ UNCHANGED <<users, codes, searchLogs, userActions, loginLogs, session, now, appVars>>

----------------------------------------------------------------------------
\* auth.py login, logout, update_profile, change_password

\* lines 146-149: the rows the username-or-email filter matches; first() takes one
LoginMatches(username) ==
    {id \in DOMAIN users : users[id].username = username \/ users[id].email = username}

LoginRefusalSkipsActive(u, password) ==
    IF ~ check_password_hash(users[u].password_hash, password) THEN "invalid_password"
    ELSE ""

\* why login refuses user u with this password, or "" (lines 155-161)
LoginRefusal(u, password) ==
    IF ~ check_password_hash(users[u].password_hash, password) THEN "invalid_password"
    ELSE IF ~ users[u].is_active THEN "account_disabled"
    ELSE ""

LoginRefusedUnlogged(c, username, uid, reason) ==
    /\ resp' = Reply("login", 401, "Invalid username or password")
    /\ UNCHANGED <<users, userActions, loginLogs, session>>

\* log_login_attempt of a refused login, then 401
LoginRefused(c, username, uid, reason) ==
    /\ RoomFor(loginLogs, MaxLoginRows)
    /\ loginLogs' = loginLogs \cup {LoginRow(username, FALSE, uid, reason)}
    /\ resp' = Reply("login", 401, IF reason = "account_disabled"
                                     THEN "Account is disabled"
                                     ELSE "Invalid username or password")
    /\ UNCHANGED <<users, userActions, session>>

\* lines 163-175: login_user, last_login, the LoginLog row, the login action
LoginAccepted(c, username, u) ==
    /\ RoomFor(loginLogs, MaxLoginRows) /\ RoomFor(userActions, MaxActionRows)
    /\ session' = [session EXCEPT ![c] = u]
    /\ users' = [users EXCEPT ![u].last_login = now]
    /\ loginLogs' = loginLogs \cup {LoginRow(username, TRUE, u, "")}
    /\ userActions' = userActions \cup {ActionRow(u, "login")}
    /\ resp' = Reply("login", 200, "")

Login(c, username_in, password) ==
    LET username == Strip(username_in)
    IN  /\ req[c].pc = "idle"
        /\ IF username = <<>> \/ password = <<>>
             THEN /\ resp' = Reply("login", 400, "Username and password are required")
                  /\ UNCHANGED <<users, userActions, loginLogs, session>>
             ELSE IF LoginMatches(username) = {}
                    THEN LoginRefused(c, username, NoUser, "invalid_username")
                    ELSE \E u \in LoginMatches(username) :
                           IF LoginRefusal(u, password) # ""
                             THEN LoginRefused(c, username, u, LoginRefusal(u, password))
                             ELSE LoginAccepted(c, username, u)
        /\ UNCHANGED <<codes, searchLogs, req, now, appVars>>

\* auth.py / logs.py log_user_action: a row only for an authenticated caller
LoggedAction(c, action_type) ==
    IF is_authenticated(c)
      THEN userActions \cup {ActionRow(current_user(c), action_type)}
      ELSE userActions

Unauthorized(c, op) ==
    /\ ~ is_authenticated(c)
    /\ resp' = Reply(op, UnauthorizedStatus, "login required")

Logout(c) ==
    /\ req[c].pc = "idle"
    /\ \/ /\ Unauthorized(c, "logout")
          /\ UNCHANGED <<userActions, session>>
       \/ /\ is_authenticated(c)
          /\ RoomFor(userActions, MaxActionRows)
          /\ userActions' = LoggedAction(c, "logout")
          /\ session' = [session EXCEPT ![c] = NoUser]
          /\ resp' = Reply("logout", 200, "")
    /\ UNCHANGED <<users, codes, searchLogs, loginLogs, req, now, appVars>>

\* check_auth: no login is required; the answer is 200 either way
CheckAuth(c) ==
    /\ req[c].pc = "idle"
    /\ resp' = [op |-> "check_auth", status |-> 200, error |-> "",
                body |-> [kind |-> "check", authenticated |-> is_authenticated(c),
                          user |-> IF is_authenticated(c) THEN current_user(c) ELSE NoUser]]
    /\ UNCHANGED <<users, codes, searchLogs, userActions, loginLogs, session, req, now, appVars>>

\* update_profile, lines 208-224: the checks; an unchanged or empty email is
\* committed and logged at once
UpdateProfileCheck(c, email_in) ==
    LET email == Lower(Strip(email_in))
        me == current_user(c)
    IN  /\ req[c].pc = "idle"
        /\ \/ /\ Unauthorized(c, "update_profile")
              /\ UNCHANGED <<userActions, req>>
           \/ /\ is_authenticated(c)
              /\ IF email = <<>> \/ email = users[me].email
                   THEN /\ RoomFor(userActions, MaxActionRows)
                        /\ userActions' = LoggedAction(c, "profile_update")
                        /\ resp' = Reply("update_profile", 200, "")
                        /\ req' = req
                   ELSE IF ~ validate_email(email)
                     THEN /\ resp' = Reply("update_profile", 400, "Invalid email format")
                          /\ UNCHANGED <<userActions, req>>
                   ELSE IF ByEmail(email) \ {me} # {}
                     THEN /\ resp' = Reply("update_profile", 400, "Email already registered")
                          /\ UNCHANGED <<userActions, req>>
                   ELSE /\ req' = [req EXCEPT ![c] = [Idle EXCEPT !.op = "update_profile",
                                       !.pc = "commit", !.actor = me, !.email = email]]
                        /\ UNCHANGED <<userActions, resp>>
        /\ UNCHANGED <<users, codes, searchLogs, loginLogs, session, now, appVars>>

\* update_profile, lines 226-237: the commit; a deleted row or a taken email raises
\* (rollback, 500); then log_user_action
UpdateProfileCommit(c) ==
    LET r == req[c]
        table == [users EXCEPT ![r.actor].email = r.email]
    IN  /\ r.op = "update_profile" /\ r.pc = "commit"
        /\ IF r.actor \in DOMAIN users /\ UniqueOk(table)
             THEN /\ RoomFor(userActions, MaxActionRows)
                  /\ users' = table
                  /\ userActions' = IF table[r.actor].is_active
                                      THEN userActions \cup {ActionRow(r.actor, "profile_update")}
                                      ELSE userActions
                  /\ resp' = Reply("update_profile", 200, "")
             ELSE /\ resp' = Reply("update_profile", 500, "Profile update failed")
                  /\ UNCHANGED <<users, userActions>>
        /\ req' = [req EXCEPT ![c] = Idle]
        /\ UNCHANGED <<codes, searchLogs, loginLogs, session, now, appVars>>

ChangePassword(c, current_password, new_password) ==
    LET me == current_user(c)
    IN  /\ req[c].pc = "idle"
        /\ \/ /\ Unauthorized(c, "change_password")
              /\ UNCHANGED <<users, userActions>>
           \/ /\ is_authenticated(c)
              /\ IF current_password = <<>> \/ new_password = <<>>
                   THEN /\ resp' = Reply("change_password", 400,
                                         "Current password and new password are required")
                        /\ UNCHANGED <<users, userActions>>
                   ELSE IF ~ check_password_hash(users[me].password_hash, current_password)
                     THEN /\ resp' = Reply("change_password", 401,
                                           "Current password is incorrect")
                          /\ UNCHANGED <<users, userActions>>
                   ELSE IF ~ validate_password(new_password)
                     THEN /\ resp' = Reply("change_password", 400,
                                           PasswordError(new_password))
                          /\ UNCHANGED <<users, userActions>>
                   ELSE /\ RoomFor(userActions, MaxActionRows)
                        /\ users' = [users EXCEPT ![me].password_hash =
                                        generate_password_hash(new_password)]
                        /\ userActions' = LoggedAction(c, "password_change")
                        /\ resp' = Reply("change_password", 200, "")
        /\ UNCHANGED <<codes, searchLogs, loginLogs, session, req, now, appVars>>

----------------------------------------------------------------------------
\* admin.py

AdminOps == {"create_signup_code", "get_signup_codes", "get_users", "update_user",
             "reset_user_password", "block_user", "delete_user", "make_admin",
             "remove_admin"}

\* is_admin, lines 9-11
is_admin(c) == is_authenticated(c) /\ users[current_user(c)].is_admin

\* before_request, lines 13-18: login_required, then the admin check; a caller let
\* through goes on to the handler of the route
AdminGate(c, op) ==
    /\ req[c].pc = "idle"
    /\ IF ~ is_authenticated(c)
         THEN /\ resp' = Reply(op, UnauthorizedStatus, "login required")
              /\ req' = req
         ELSE IF ~ is_admin(c)
           THEN /\ resp' = Reply(op, 403, "Admin access required")
                /\ req' = req
           ELSE /\ req' = [req EXCEPT ![c] = [Idle EXCEPT !.op = op, !.pc = "body",
                                                          !.actor = current_user(c)]]
                /\ resp' = resp
    /\ UNCHANGED <<users, codes, searchLogs, userActions, loginLogs, session, now, appVars>>

InBody(c, op) == req[c].op = op /\ req[c].pc = "body"

NeverSelf(actor, user_id) == FALSE

\* user_id == current_user.id, lines 132, 139, 196, 224, 268
IsSelf(actor, user_id) == user_id = actor

\* the handler answers and the request is over
Answer(c, status, error) ==
    /\ resp' = Reply(req[c].op, status, error)
    /\ req' = [req EXCEPT ![c] = Idle]

\* create_signup_code: secrets.token_hex gives a code no other row has
CreateSignupCode(c, expires_in_days) ==
    LET id == NextId(DOMAIN codes)
    IN  /\ InBody(c, "create_signup_code")
        /\ id <= MaxCodes
        /\ codes' = Put(codes, id, [expires_at |-> now + expires_in_days,
                                    used_by_user_id |-> NoUser])
        /\ Answer(c, 201, "")
        /\ UNCHANGED <<users, searchLogs, userActions, loginLogs, session, now, appVars>>

GetSignupCodes(c) ==
    /\ InBody(c, "get_signup_codes")
    /\ Answer(c, 200, "")
    /\ UNCHANGED <<users, codes, searchLogs, userActions, loginLogs, session, now, appVars>>

GetUsers(c) ==
    /\ InBody(c, "get_users")
    /\ Answer(c, 200, "")
    /\ UNCHANGED <<users, codes, searchLogs, userActions, loginLogs, session, now, appVars>>

\* a key the JSON body does not have
Absent == <<"absent">>
NoFlag == "absent"
Flags == {"true", "false"}

\* bool() of a JSON true / false
AsBool(flag) == flag = "true"

\* update_user, lines 77-141: the error of the first check that fails, or ""
UpdateUserError(actor, user_id, data) ==
    LET new_username == Strip(data.username)
        new_email == Lower(Strip(data.email))
    IN  IF user_id \notin DOMAIN users THEN "User not found"
        ELSE IF /\ data.username = Absent /\ data.email = Absent
                /\ data.is_active = NoFlag /\ data.is_admin = NoFlag
            THEN "No data provided"
        ELSE IF data.username # Absent /\ new_username = <<>> THEN "Username cannot be empty"
        ELSE IF data.username # Absent /\ Len(new_username) < MinUsernameLen
            THEN "Username must be at least 3 characters long"
        ELSE IF data.username # Absent /\ ByUsername(new_username) \ {user_id} # {}
            THEN "Username already exists"
        ELSE IF data.email # Absent /\ new_email = <<>> THEN "Email cannot be empty"
        ELSE IF data.email # Absent /\ ~ validate_email(new_email) THEN "Invalid email format"
        ELSE IF data.email # Absent /\ ByEmail(new_email) \ {user_id} # {}
            THEN "Email already exists"
        ELSE IF data.is_active = "false" /\ IsSelf(actor, user_id)
            THEN "Cannot deactivate your own account"
        ELSE IF data.is_admin = "false" /\ IsSelf(actor, user_id)
            THEN "Cannot remove admin privileges from your own account"
        ELSE ""

\* the block of update_user (username 1, email 2, is_active 3, is_admin 4) whose
\* check refused the request
Stage(error) ==
    IF error \in {"Username cannot be empty", "Username must be at least 3 characters long",
                  "Username already exists"} THEN 1
    ELSE IF error \in {"Email cannot be empty", "Invalid email format", "Email already exists"}
      THEN 2
    ELSE IF error = "Cannot deactivate your own account" THEN 3
    ELSE 4

\* the attributes the blocks before the refusing one have assigned on the user
\* object (lines 106, 126, 134)
Dirty(error, user, data) ==
    [username |-> IF Stage(error) > 1 /\ data.username # Absent
                     /\ Strip(data.username) # user.username
                    THEN Strip(data.username) ELSE <<>>,
     email |-> IF Stage(error) > 2 /\ data.email # Absent
                  /\ Lower(Strip(data.email)) # user.email
                 THEN Lower(Strip(data.email)) ELSE <<>>,
     is_active |-> IF Stage(error) > 3 /\ data.is_active \in Flags
                     THEN data.is_active ELSE "keep",
     is_admin |-> "keep"]

\* the UPDATE of the changed attributes
Updated(user, r) ==
    [user EXCEPT !.username = IF r.username # <<>> THEN r.username ELSE @,
                 !.email = IF r.email # <<>> THEN r.email ELSE @,
                 !.is_active = IF r.is_active \in Flags THEN AsBool(r.is_active) ELSE @,
                 !.is_admin = IF r.is_admin \in Flags THEN AsBool(r.is_admin) ELSE @]

RefusedButCommitted(table, user_id, dirty) ==
    [table EXCEPT ![user_id] = Updated(@, dirty)]

\* a return of 400 without commit: the session ends with the request and the
\* assigned attributes are rolled back with it
Refused(table, user_id, dirty) == table

\* update_user up to the commit: the attributes the session holds as changed
UpdateUserCheck(c, user_id, data) ==
    LET error == UpdateUserError(req[c].actor, user_id, data)
        user == users[user_id]
        new_username == Strip(data.username)
        new_email == Lower(Strip(data.email))
    IN  /\ InBody(c, "update_user")
        /\ IF error \in {"User not found", "No data provided"}
             THEN /\ Answer(c, IF error = "User not found" THEN 404 ELSE 400, error)
                  /\ users' = users
           ELSE IF error # ""
             THEN /\ Answer(c, 400, error)
                  /\ users' = Refused(users, user_id, Dirty(error, user, data))
             ELSE /\ users' = users
                  /\ req' = [req EXCEPT ![c].pc = "commit", ![c].target = user_id,
                        ![c].username = IF data.username # Absent /\ new_username # user.username
                                          THEN new_username ELSE <<>>,
                        ![c].email = IF data.email # Absent /\ new_email # user.email
                                       THEN new_email ELSE <<>>,
                        ![c].is_active = IF data.is_active \in Flags
                                            /\ AsBool(data.is_active) # user.is_active
                                           THEN data.is_active ELSE "keep",
                        ![c].is_admin = IF data.is_admin \in Flags
                                           /\ AsBool(data.is_admin) # user.is_admin
                                          THEN data.is_admin ELSE "keep"]
                  /\ resp' = resp
        /\ UNCHANGED <<codes, searchLogs, userActions, loginLogs, session, now, appVars>>

\* update_user, lines 143-153: the commit; a deleted row or a taken username or
\* email raises (rollback, 500)
UpdateUserCommit(c) ==
    LET r == req[c]
        table == [users EXCEPT ![r.target] = Updated(@, r)]
    IN  /\ r.op = "update_user" /\ r.pc = "commit"
        /\ IF r.target \in DOMAIN users /\ UniqueOk(table)
             THEN /\ users' = table
                  /\ Answer(c, 200, "")
             ELSE /\ users' = users
                  /\ Answer(c, 500, "Failed to update user")
        /\ UNCHANGED <<codes, searchLogs, userActions, loginLogs, session, now, appVars>>

PwShort == <<"p","w","1">>
\* secrets.token_urlsafe(12): sixteen URL-safe characters
PwGenerated == <<"Q","x","7","_","a","B","-","9","k","L","m","0","z","Y","w","2">>

ResetUserPassword(c, user_id, new_password_in) ==
    LET new_password == IF new_password_in = <<>> THEN PwGenerated ELSE new_password_in
    IN  /\ InBody(c, "reset_user_password")
        /\ IF user_id \notin DOMAIN users
             THEN /\ Answer(c, 404, "User not found")
                  /\ users' = users
             ELSE IF Len(new_password) < MinPasswordLen
               THEN /\ Answer(c, 400, "Password must be at least 8 characters long")
                    /\ users' = users
               ELSE /\ users' = [users EXCEPT ![user_id].password_hash =
                                     generate_password_hash(new_password)]
                    /\ Answer(c, 200, "")
        /\ UNCHANGED <<codes, searchLogs, userActions, loginLogs, session, now, appVars>>

BlockUser(c, user_id, block) ==
    /\ InBody(c, "block_user")
    /\ IF user_id \notin DOMAIN users
         THEN /\ Answer(c, 404, "User not found")
              /\ users' = users
         ELSE IF IsSelf(req[c].actor, user_id)
           THEN /\ Answer(c, 400, "Cannot block yourself")
                /\ users' = users
           ELSE /\ users' = [users EXCEPT ![user_id].is_active = ~ block]
                /\ Answer(c, 200, "")
    /\ UNCHANGED <<codes, searchLogs, userActions, loginLogs, session, now, appVars>>

CascadeAll(table, user_id) == {}

\* db.session.delete(user): the rows of the three log relationships go with the
\* user (cascade='all, delete-orphan'); the signup code that points to the user
\* through the signup_code_used backref has its used_by_user_id set to NULL
Cascade(table, user_id) == {r \in table : r.user_id # user_id}

Nullified(user_id) ==
    [k \in DOMAIN codes |->
        IF codes[k].used_by_user_id = user_id
          THEN [codes[k] EXCEPT !.used_by_user_id = NoUser]
          ELSE codes[k]]

DeleteUser(c, user_id) ==
    /\ InBody(c, "delete_user")
    /\ IF user_id \notin DOMAIN users
         THEN /\ Answer(c, 404, "User not found")
              /\ UNCHANGED <<users, codes, searchLogs, userActions, loginLogs>>
         ELSE IF IsSelf(req[c].actor, user_id)
           THEN /\ Answer(c, 400, "Cannot delete yourself")
                /\ UNCHANGED <<users, codes, searchLogs, userActions, loginLogs>>
           ELSE /\ users' = Drop(users, user_id)
                /\ codes' = Nullified(user_id)
                /\ searchLogs' = Cascade(searchLogs, user_id)
                /\ userActions' = Cascade(userActions, user_id)
                /\ loginLogs' = Cascade(loginLogs, user_id)
                /\ Answer(c, 200, "")
    /\ UNCHANGED <<session, now, appVars>>

MakeAdmin(c, user_id) ==
    /\ InBody(c, "make_admin")
    /\ IF user_id \notin DOMAIN users
         THEN /\ Answer(c, 404, "User not found")
              /\ users' = users
         ELSE /\ users' = [users EXCEPT ![user_id].is_admin = TRUE]
              /\ Answer(c, 200, "")
    /\ UNCHANGED <<codes, searchLogs, userActions, loginLogs, session, now, appVars>>

RemoveAdmin(c, user_id) ==
    /\ InBody(c, "remove_admin")
    /\ IF user_id \notin DOMAIN users
         THEN /\ Answer(c, 404, "User not found")
              /\ users' = users
         ELSE IF IsSelf(req[c].actor, user_id)
           THEN /\ Answer(c, 400, "Cannot remove admin privileges from yourself")
                /\ users' = users
           ELSE /\ users' = [users EXCEPT ![user_id].is_admin = FALSE]
                /\ Answer(c, 200, "")
    /\ UNCHANGED <<codes, searchLogs, userActions, loginLogs, session, now, appVars>>

----------------------------------------------------------------------------
\* app.py chat and code_chat: one user action, the model call, one search log

ChatTypes == {"chat", "code"}
ChatAction(search_type) == IF search_type = "chat" THEN "chat_request" ELSE "code_chat_request"

\* invoke_llama answers {response} or {error}; the text logged says which
Chat(c, search_type, has_message, outcome) ==
    /\ req[c].pc = "idle"
    /\ \/ /\ Unauthorized(c, search_type)
          /\ UNCHANGED <<searchLogs, userActions>>
       \/ /\ is_authenticated(c)
          /\ IF ~ has_message
               THEN /\ resp' = Reply(search_type, 400, "Message is required")
                    /\ UNCHANGED <<searchLogs, userActions>>
               ELSE /\ RoomFor(userActions, MaxActionRows) /\ RoomFor(searchLogs, MaxSearchRows)
                    /\ userActions' = LoggedAction(c, ChatAction(search_type))
                    /\ searchLogs' = searchLogs
                           \cup {SearchRow(current_user(c), search_type, outcome)}
                    /\ resp' = Reply(search_type, 200, IF outcome = "error" THEN outcome ELSE "")
    /\ UNCHANGED <<users, codes, loginLogs, session, req, now, appVars>>

----------------------------------------------------------------------------
\* logs.py: the queries of a user over the three log tables

MaxPerPage == 100
DefaultPerPage == 20
MaxDays == 365

Min(a, b) == IF a < b THEN a ELSE b

Everyones(table, uid) == table

\* filter_by(user_id=current_user.id)
Mine(table, uid) == {r \in table : r.user_id = uid}

\* filter_by(search_type=...) / filter_by(action_type=...) when the type is given
OfType(table, column, type) == IF type = "" THEN table ELSE {r \in table : r[column] = type}

\* order_by(desc(...)): latest first; rows of one time come in the order of the scan
Before(a, b, column) == a[column] > b[column] \/ (a[column] = b[column] /\ a.id < b.id)

OrderBy(table, column) ==
    LET place == [a \in table |-> 1 + Cardinality({b \in table : Before(b, a, column)})]
    IN  [i \in 1..Cardinality(table) |-> CHOOSE a \in table : place[a] = i]

\* db.paginate(error_out=False): a page below 1 is page 1, a per_page below 1 is 20;
\* the handler answers with the page it was given and the per_page it capped
Paginate(rows, page_in, per_page_in) ==
    LET page == IF page_in < 1 THEN 1 ELSE page_in
        per_page == IF per_page_in < 1 THEN DefaultPerPage ELSE per_page_in
        total == Len(rows)
        pages == IF total = 0 THEN 0 ELSE (total + per_page - 1) \div per_page
        offset == (page - 1) * per_page
    IN  [kind |-> "list",
         items |-> SubSeq(rows, offset + 1, Min(offset + per_page, total)),
         page |-> page_in, per_page |-> per_page_in, total |-> total, pages |-> pages,
         has_next |-> page < pages, has_prev |-> page > 1]

SearchLogsBody(table, uid, page, per_page, type) ==
    Paginate(OrderBy(OfType(Mine(table, uid), "search_type", type), "timestamp"),
             page, Min(per_page, MaxPerPage))

UserActionsBody(table, uid, page, per_page, type) ==
    Paginate(OrderBy(OfType(Mine(table, uid), "action_type", type), "timestamp"),
             page, Min(per_page, MaxPerPage))

LoginLogsBodyUncapped(table, uid, page, per_page) ==
    Paginate(OrderBy(Mine(table, uid), "login_time"), page, per_page)

LoginLogsBody(table, uid, page, per_page) ==
    Paginate(OrderBy(Mine(table, uid), "login_time"), page, Min(per_page, MaxPerPage))

\* group_by with count
ByType(table, column) ==
    {<<t, Cardinality({r \in table : r[column] = t})>> : t \in {r[column] : r \in table}}

Since(table, column, start_date) == {r \in table : r[column] >= start_date}

StatsBody(searches, actions, logins, uid, utcnow, days_in) ==
    LET days == Min(days_in, MaxDays)
        start_date == utcnow - days
        s == Since(Mine(searches, uid), "timestamp", start_date)
        a == Since(Mine(actions, uid), "timestamp", start_date)
        l == Since(Mine(logins, uid), "login_time", start_date)
    IN  [kind |-> "stats", period_days |-> days,
         search_by_type |-> ByType(s, "search_type"), search_total |-> Cardinality(s),
         action_by_type |-> ByType(a, "action_type"), action_total |-> Cardinality(a),
         total_logins |-> Cardinality(l),
         successful_logins |-> Cardinality({r \in l : r.success}),
         failed_logins |-> Cardinality({r \in l : ~ r.success})]

ExportBody(searches, actions, logins, uid, utcnow, export_type) ==
    [kind |-> "export",
     keys |-> {k \in {"searches", "actions", "logins"} : export_type \in {k, "all"}},
     searches |-> IF export_type \in {"searches", "all"}
                    THEN OrderBy(Mine(searches, uid), "timestamp") ELSE <<>>,
     actions |-> IF export_type \in {"actions", "all"}
                   THEN OrderBy(Mine(actions, uid), "timestamp") ELSE <<>>,
     logins |-> IF export_type \in {"logins", "all"}
                  THEN OrderBy(Mine(logins, uid), "login_time") ELSE <<>>,
     user |-> users[uid], export_timestamp |-> utcnow]

Found(op, body) == [op |-> op, status |-> 200, error |-> "", body |-> body]

GetSearchLogs(c, page, per_page, type) ==
    /\ req[c].pc = "idle"
    /\ \/ Unauthorized(c, "get_search_logs")
       \/ /\ is_authenticated(c)
          /\ resp' = Found("get_search_logs",
                           SearchLogsBody(searchLogs, current_user(c), page, per_page, type))
    /\ UNCHANGED <<users, codes, searchLogs, userActions, loginLogs, session, req, now, appVars>>

GetUserActions(c, page, per_page, type) ==
    /\ req[c].pc = "idle"
    /\ \/ Unauthorized(c, "get_user_actions")
       \/ /\ is_authenticated(c)
          /\ resp' = Found("get_user_actions",
                           UserActionsBody(userActions, current_user(c), page, per_page, type))
    /\ UNCHANGED <<users, codes, searchLogs, userActions, loginLogs, session, req, now, appVars>>

GetLoginLogs(c, page, per_page) ==
    /\ req[c].pc = "idle"
    /\ \/ Unauthorized(c, "get_login_logs")
       \/ /\ is_authenticated(c)
          /\ resp' = Found("get_login_logs",
                           LoginLogsBody(loginLogs, current_user(c), page, per_page))
    /\ UNCHANGED <<users, codes, searchLogs, userActions, loginLogs, session, req, now, appVars>>

GetUserStats(c, days) ==
    /\ req[c].pc = "idle"
    /\ \/ Unauthorized(c, "get_user_stats")
       \/ /\ is_authenticated(c)
          /\ resp' = Found("get_user_stats",
                           StatsBody(searchLogs, userActions, loginLogs, current_user(c),
                                     now, days))
    /\ UNCHANGED <<users, codes, searchLogs, userActions, loginLogs, session, req, now, appVars>>

\* export_user_data: the rows are read, then the data_export action is logged
ExportUserData(c, export_type) ==
    /\ req[c].pc = "idle"
    /\ \/ /\ Unauthorized(c, "export_user_data")
          /\ UNCHANGED userActions
       \/ /\ is_authenticated(c)
          /\ RoomFor(userActions, MaxActionRows)
          /\ userActions' = LoggedAction(c, "data_export")
          /\ resp' = Found("export_user_data",
                           ExportBody(searchLogs, userActions, loginLogs, current_user(c),
                                      now, export_type))
    /\ UNCHANGED <<users, codes, searchLogs, loginLogs, session, req, now, appVars>>

----------------------------------------------------------------------------
\* The requests of the clients, with the inputs they are sent with

\* a client that is signed out signs in with one of these usernames and passwords
LoginWith(credentials) ==
    \E c \in Clients : \E up \in credentials :
        session[c] = NoUser /\ Login(c, up[1], up[2])
AdminCredentials == <<AdminName, AdminPassword>>
AnnCredentials == <<NameAnn, PwGood>>

\* a request to one of these admin routes arrives
AdminRequest(ops) == \E c \in Clients : \E op \in ops : AdminGate(c, op)
\* the same, the admin API serving one request at a time
AdminRequestSerial(ops) ==
    \E c \in Clients : \E op \in ops :
        (\A d \in Clients : req[d].pc = "idle") /\ AdminGate(c, op)

RegisterCommitUser == \E c \in Clients : RegisterCreateUser(c)
RegisterCommitCode == \E c \in Clients : RegisterUseCode(c)
RegisterRaises == \E c \in Clients : RegisterFault(c)
LoginRequest ==
    \E c \in Clients : \E u \in LoginNames \cup {<<>>} : \E p \in LoginPasswords :
        Login(c, u, p)
LogoutRequest == \E c \in Clients : Logout(c)
ProfileCommit == \E c \in Clients : UpdateProfileCommit(c)
CodeCreate == \E c \in Clients : \E d \in TtlDays : CreateSignupCode(c, d)
CodeList == \E c \in Clients : GetSignupCodes(c)
UserList == \E c \in Clients : GetUsers(c)
UserUpdateCommit == \E c \in Clients : UpdateUserCommit(c)
UserBlock == \E c \in Clients : \E t \in 1..MaxUsers : \E b \in BOOLEAN : BlockUser(c, t, b)
UserDelete == \E c \in Clients : \E t \in 1..MaxUsers : DeleteUser(c, t)
AdminMake == \E c \in Clients : \E t \in 1..MaxUsers : MakeAdmin(c, t)
AdminRemove == \E c \in Clients : \E t \in 1..MaxUsers : RemoveAdmin(c, t)
----------------------------------------------------------------------------
\* The registration specification: two clients register with the same or with
\* different codes while an admin blocks and deletes users and the codes expire

RegisterInputs == {<<NameAnn, EmailAnn>>, <<NameBobPadded, EmailBobUpper>>}

RegisterWithCode ==
    \E c \in Clients : \E i \in RegisterInputs : \E k \in 1..MaxCodes :
        RegisterCheck(c, i[1], i[2], PwGood, k)
NextReg ==
    \/ Tick
    \/ RegisterWithCode
    \/ RegisterCommitUser
    \/ RegisterCommitCode
    \/ RegisterRaises
    \/ LoginWith({AdminCredentials})
    \/ AdminRequest({"block_user", "delete_user"})
    \/ UserBlock
    \/ UserDelete

SpecReg == Init /\ [][NextReg]_vars

\* the users that register created from code k
CreatedFrom(k) == {u \in DOMAIN users : users[u].via = k}

\* C1: two registrations that present the same code never both create a user: at no
\* point do two users exist that were created from the same code
C1_OneUserPerCode == \A k \in DOMAIN codes : Cardinality(CreatedFrom(k)) <= 1

\* C2: the validity of a signup code is monotone: a code that is consumed or
\* expired is never valid again, whatever request is served
C2_ValidityMonotone ==
    [][\A k \in DOMAIN codes : ~ is_valid(k) => ~ RowIsValid(codes'[k], now')]_vars

\* C3: once no register request is in flight (each has answered, with 201 or with
\* an error), a user created by register exists iff its code is marked used by it
C3_UserIffCodeUsed ==
    (\A c \in Clients : req[c].op # "register") =>
        /\ \A u \in DOMAIN users :
              users[u].via # NoCode => codes[users[u].via].used_by_user_id = u
        /\ \A k \in DOMAIN codes :
              codes[k].used_by_user_id # NoUser => codes[k].used_by_user_id \in CreatedFrom(k)

----------------------------------------------------------------------------
\* The uniqueness specification: registrations, profile updates and admin updates
\* that ask for the same usernames and emails, interleaved between their checks
\* and their commits

RegisterAny ==
    \E c \in Clients : \E u \in {NameAnn, NameBobPadded} : \E e \in {EmailAnn, EmailBobUpper} :
        RegisterCheck(c, u, e, PwGood, 1)
ProfileEmail == \E c \in Clients : \E e \in {EmailAnn, EmailBobUpper} : UpdateProfileCheck(c, e)
RenameInputs ==
    LET none == [username |-> Absent, email |-> Absent, is_active |-> NoFlag,
                 is_admin |-> NoFlag]
    IN  {[none EXCEPT !.username = u] : u \in {NameAnn, NameBobPadded}}
        \cup {[none EXCEPT !.email = e] : e \in {EmailAnn, EmailBobUpper}}
UserRename ==
    \E c \in Clients : \E t \in 1..MaxUsers : \E d \in RenameInputs : UpdateUserCheck(c, t, d)

NextUnique ==
    \/ RegisterAny
    \/ RegisterCommitUser
    \/ RegisterCommitCode
    \/ LoginWith({AdminCredentials, AnnCredentials})
    \/ ProfileEmail
    \/ ProfileCommit
    \/ AdminRequest({"update_user"})
    \/ UserRename
    \/ UserUpdateCommit

SpecUnique == Init /\ [][NextUnique]_vars

\* C9: in every reachable state no two users share a username and no two users
\* share an email
C9_UniqueNames ==
    \A a \in DOMAIN users : \A b \in DOMAIN users :
        a # b => users[a].username # users[b].username /\ users[a].email # users[b].email

\* a register, a profile update and an admin update were each stopped at their
\* commit by a row another request committed after their check
C9_RaceStopped ==
    /\ Cardinality(DOMAIN users) >= 2
    /\ resp.status = 500
    /\ resp.error \in {"Registration failed: IntegrityError", "Profile update failed",
                       "Failed to update user"}

----------------------------------------------------------------------------
\* The login specification: logins with right and wrong names and passwords, of
\* enabled and of blocked accounts, and logouts

RegisterAnn == \E c \in Clients : RegisterCheck(c, NameAnn, EmailAnn, PwGood, 1)
NextLogin ==
    \/ LoginRequest
    \/ LogoutRequest
    \/ RegisterAnn
    \/ RegisterCommitUser
    \/ RegisterCommitCode
    \/ AdminRequest({"block_user"})
    \/ UserBlock

SpecLogin == Init /\ [][NextLogin]_vars

ALoginStep == \E c \in Clients : \E u \in LoginNames \cup {<<>>} : \E p \in LoginPasswords : Login(c, u, p)

\* C4 as stated: every call to the login endpoint appends exactly one LoginLog row
C4_EveryLoginLogged ==
    [][ALoginStep => Cardinality(loginLogs' \ loginLogs) = 1]_vars

\* C4 as amended: a login answered 401 appends exactly one row, with success false
\* and a failure reason; a login answered 200 appends exactly one row, with success
\* true, and sets last_login; a login answered 400 appends none; no row is removed
C4_LoginLoggedByStatus ==
    [][\A c \in Clients : \A u \in LoginNames \cup {<<>>} : \A p \in LoginPasswords :
          Login(c, u, p) =>
            /\ loginLogs \subseteq loginLogs'
            /\ resp'.status \in {200, 400, 401}
            /\ resp'.status = 400 => loginLogs' = loginLogs /\ (Strip(u) = <<>> \/ p = <<>>)
            /\ resp'.status = 401 =>
                 \E r \in loginLogs' :
                    /\ loginLogs' \ loginLogs = {r}
                    /\ r.success = FALSE
                    /\ r.failure_reason \in {"invalid_username", "invalid_password",
                                             "account_disabled"}
                    /\ r.username_attempted = Strip(u)
            /\ resp'.status = 200 =>
                 \E r \in loginLogs' :
                    /\ loginLogs' \ loginLogs = {r}
                    /\ r.success = TRUE
                    /\ r.user_id = session'[c]
                    /\ users'[r.user_id].last_login = now]_vars

\* logins of each outcome were logged: a refused one and an accepted one
C4_BothOutcomesLogged ==
    /\ \E r \in loginLogs : r.success /\ users[r.user_id].last_login # NullTime
    /\ \E r \in loginLogs : ~ r.success /\ r.failure_reason = "account_disabled"

\* C8: a login makes the session authenticated only as a user that the identifier
\* resolves to, whose hash the password matches and who is active; every other
\* login leaves the session as it was; an identifier that resolves only to
\* disabled accounts is answered 401; nothing but a login signs a session in
C8_SessionOnlyIfChecked ==
    [][/\ \A c \in Clients : \A u \in LoginNames \cup {<<>>} : \A p \in LoginPasswords :
            Login(c, u, p) =>
              /\ IF resp'.status = 200
                   THEN /\ session'[c] \in LoginMatches(Strip(u))
                        /\ check_password_hash(users[session'[c]].password_hash, p)
                        /\ users[session'[c]].is_active
                        /\ \A d \in Clients \ {c} : session'[d] = session[d]
                   ELSE session' = session
              /\ (/\ LoginMatches(Strip(u)) # {}
                  /\ p # <<>>
                  /\ \A m \in LoginMatches(Strip(u)) : ~ users[m].is_active)
                 => resp'.status = 401 /\ session' = session
       /\ \A c \in Clients :
            (session'[c] # session[c] /\ session'[c] # NoUser) => ALoginStep /\ resp'.status = 200
      ]_vars

\* a blocked account presented its right password and was answered 401
C8_DisabledRejected ==
    /\ resp.op = "login" /\ resp.status = 401 /\ resp.error = "Account is disabled"
    /\ \E r \in loginLogs :
          /\ r.failure_reason = "account_disabled"
          /\ r.user_id \in DOMAIN users
          /\ ~ users[r.user_id].is_active
          /\ \A c \in Clients : session[c] # r.user_id

----------------------------------------------------------------------------
\* The self-protection specification: admins block, delete, demote and update
\* themselves and others

FlagInputs ==
    LET none == [username |-> Absent, email |-> Absent, is_active |-> NoFlag,
                 is_admin |-> NoFlag]
    IN  {[none EXCEPT !.is_active = a, !.is_admin = b] : a, b \in Flags \cup {NoFlag}}
        \cup {[none EXCEPT !.username = NameAnn, !.is_active = "false"]}

UserUpdateFlags ==
    \E c \in Clients : \E t \in 1..MaxUsers : \E d \in FlagInputs : UpdateUserCheck(c, t, d)
PasswordResetShort ==
    \E c \in Clients : \E t \in 1..MaxUsers : \E p \in {PwGood, PwShort} :
        ResetUserPassword(c, t, p)

NextSelf ==
    \/ RegisterAnn
    \/ RegisterCommitUser
    \/ RegisterCommitCode
    \/ LoginWith({AdminCredentials, AnnCredentials})
    \/ AdminRequestSerial({"block_user", "delete_user", "remove_admin", "update_user"})
    \/ UserBlock
    \/ UserDelete
    \/ AdminRemove
    \/ UserUpdateFlags
    \/ UserUpdateCommit

SpecSelf == Init /\ [][NextSelf]_vars

SelfErrors ==
    {"Cannot block yourself", "Cannot delete yourself",
     "Cannot remove admin privileges from yourself",
     "Cannot deactivate your own account",
     "Cannot remove admin privileges from your own account"}

\* the request of client c targets the caller's own user id with a block, a delete,
\* a remove-admin, or an update that sets is_active or is_admin to false
SelfTargeted(c) ==
    LET A == req[c].actor
    IN  \/ \E b \in BOOLEAN : BlockUser(c, A, b)
        \/ DeleteUser(c, A)
        \/ RemoveAdmin(c, A)
        \/ \E d \in FlagInputs :
              /\ d.is_active = "false" \/ d.is_admin = "false"
              /\ UpdateUserCheck(c, A, d)

\* C5: an admin request that targets the caller's own id with a block, a delete, a
\* remove-admin or a deactivating or demoting update is answered 400 (404 when the
\* caller's row is gone), the request ends there, and no user row changes
C5_SelfProtected ==
    [][\A c \in Clients :
          SelfTargeted(c) =>
            /\ resp'.status \in {400, 404}
            /\ resp'.status = 404 <=> req[c].actor \notin DOMAIN users
            /\ users' = users
            /\ req'[c] = Idle]_vars

\* an admin who is still an active admin was refused a change of their own account
C5_SelfRefused ==
    /\ resp.status = 400
    /\ resp.error \in SelfErrors
    /\ \E c \in Clients : is_admin(c)

----------------------------------------------------------------------------
\* The gate specification: every route of the admin API called by anonymous
\* clients, by a registered user and by an admin

NextGate ==
    \/ RegisterAnn
    \/ RegisterCommitUser
    \/ RegisterCommitCode
    \/ LoginWith({AdminCredentials, AnnCredentials})
    \/ AdminRequestSerial(AdminOps)
    \/ CodeCreate
    \/ CodeList
    \/ UserList
    \/ PasswordResetShort
    \/ AdminMake

SpecGate == Init /\ [][NextGate]_vars

\* C6 as stated: an admin-API call by a caller who is not an authenticated admin is
\* answered 403 and changes no user and no signup code
C6_NonAdminForbidden ==
    [][\A c \in Clients : \A op \in AdminOps :
          (AdminGate(c, op) /\ ~ is_admin(c)) =>
            /\ resp'.status = 403
            /\ users' = users
            /\ codes' = codes]_vars

----------------------------------------------------------------------------
\* The log specification: two users sign in, chat and read their logs, while
\* logins fail under their names and under names that resolve to nobody

Pages == {1, 2}
PerPages == {1, 101}
PageInputs == {<<1, 101>>, <<1, 1>>, <<2, 1>>}
Days == {-1, 1}
SearchFilters == {"", "chat"}
ActionFilters == {"", "login"}
ExportKinds == {"actions", "all", "other"}

\* the first client is the admin's; the second is Ann's, who mistypes her password
\* and her name
LoginAny ==
    \/ session["c1"] = NoUser /\ Login("c1", AdminName, AdminPassword)
    \/ \E up \in {<<NameAnn, PwGood>>, <<NameAnn, AdminPassword>>,
                   <<Strip(NameBobPadded), PwGood>>} :
          session["c2"] = NoUser /\ Login("c2", up[1], up[2])
RegisterAnnSecond == RegisterCheck("c2", NameAnn, EmailAnn, PwGood, 1)
ChatSent == Chat("c1", "chat", TRUE, "response") \/ \E t \in ChatTypes : Chat("c2", t, TRUE, "response")
SearchLogList ==
    \E c \in Clients : \E pn \in PageInputs : \E t \in SearchFilters :
        (t = "" \/ pn[1] = 1) /\ GetSearchLogs(c, pn[1], pn[2], t)
UserActionList ==
    \E c \in Clients : \E pn \in PageInputs : \E t \in ActionFilters :
        (t = "" \/ pn[1] = 1) /\ GetUserActions(c, pn[1], pn[2], t)
LoginLogList == \E c \in Clients : \E pn \in PageInputs : GetLoginLogs(c, pn[1], pn[2])
UserStats == \E c \in Clients : \E d \in Days : GetUserStats(c, d)
UserExport == \E c \in Clients : \E t \in ExportKinds : ExportUserData(c, t)

NextLogs ==
    \/ Tick
    \/ RegisterAnnSecond
    \/ RegisterCommitUser
    \/ RegisterCommitCode
    \/ LoginAny
    \/ ChatSent
    \/ SearchLogList
    \/ UserActionList
    \/ LoginLogList
    \/ UserStats
    \/ UserExport

SpecLogs == Init /\ [][NextLogs]_vars

RowsOf(body) ==
    IF body.kind = "list" THEN {body.items[i] : i \in DOMAIN body.items}
    ELSE IF body.kind = "export"
      THEN {body.searches[i] : i \in DOMAIN body.searches}
           \cup {body.actions[i] : i \in DOMAIN body.actions}
           \cup {body.logins[i] : i \in DOMAIN body.logins}
    ELSE {}

\* the query step of client c is answered with this body
Answered(c, op, body) ==
    /\ resp'.op = op
    /\ resp'.status = 200
    /\ resp'.body = body
    /\ \A r \in RowsOf(body) : r.user_id = current_user(c)

\* C7: a list, stats or export query answered to user U carries only rows whose
\* user_id is U, and its body is the body the same query gives on the tables cut
\* down to U's rows: rows of other users and login rows of no user do not count
C7_OwnRowsOnly ==
    [][\A c \in Clients :
          (req' = req /\ session' = session /\ resp'.status = 200 /\ is_authenticated(c)) =>
            LET U == current_user(c)
                S == Mine(searchLogs, U)
                A == Mine(userActions, U)
                L == Mine(loginLogs, U)
            IN  /\ \A p \in Pages : \A n \in PerPages :
                      /\ \A t \in SearchFilters :
                           (resp'.op = "get_search_logs" /\ GetSearchLogs(c, p, n, t))
                           => Answered(c, "get_search_logs", SearchLogsBody(S, U, p, n, t))
                      /\ \A t \in ActionFilters :
                           (resp'.op = "get_user_actions" /\ GetUserActions(c, p, n, t))
                           => Answered(c, "get_user_actions", UserActionsBody(A, U, p, n, t))
                      /\ (resp'.op = "get_login_logs" /\ GetLoginLogs(c, p, n))
                           => Answered(c, "get_login_logs", LoginLogsBody(L, U, p, n))
                /\ \A d \in Days :
                      (resp'.op = "get_user_stats" /\ GetUserStats(c, d))
                        => Answered(c, "get_user_stats", StatsBody(S, A, L, U, now, d))
                /\ \A e \in ExportKinds :
                      (resp'.op = "export_user_data" /\ ExportUserData(c, e))
                        => Answered(c, "export_user_data", ExportBody(S, A, L, U, now, e))]_vars

\* a user was answered a page of rows while rows of another user and a login row
\* of no user were in the tables
C7_OthersRowsPresent ==
    /\ resp.status = 200
    /\ resp.body.kind \in {"list", "export"}
    /\ RowsOf(resp.body) # {}
    /\ \E r \in loginLogs : r.user_id = NoUser
    /\ \E r \in userActions : \E q \in RowsOf(resp.body) : r.user_id # q.user_id

----------------------------------------------------------------------------
\* The audit specification: every operation that writes a log row, and the
\* deletion of users by an admin

\* Ann's client saves her profile, sets her password again and exports her data
ProfileKept == UpdateProfileCheck("c2", <<>>)
PasswordKept == ChangePassword("c2", PwGood, PwGood)
ExportAll == ExportUserData("c2", "all")

NextAudit ==
    \/ RegisterAnnSecond
    \/ RegisterCommitUser
    \/ RegisterCommitCode
    \/ LoginAny
    \/ LogoutRequest
    \/ ProfileKept
    \/ PasswordKept
    \/ ChatSent
    \/ ExportAll
    \/ AdminRequestSerial({"delete_user"})
    \/ UserDelete

SpecAudit == Init /\ [][NextAudit]_vars

\* C10 as stated: the three log stores only grow
C10_AppendOnly ==
    [][/\ searchLogs \subseteq searchLogs'
       /\ userActions \subseteq userActions'
       /\ loginLogs \subseteq loginLogs']_vars

\* the rows of a table that a step takes away are the rows of one user, whom an
\* admin's delete-user request removes in that step
GoneWithUser(table, after) ==
    \/ table \subseteq after
    \/ \E c \in Clients : \E t \in DOMAIN users :
          /\ DeleteUser(c, t)
          /\ t \notin DOMAIN users'
          /\ table \ after = {r \in table : r.user_id = t}

\* C10 as amended: no operation but the admin's deletion of a user removes or
\* changes a row of the three log stores, and the deletion of a user removes the
\* rows of that user and no other row
C10_RemovedWithUserOnly ==
    [][/\ GoneWithUser(searchLogs, searchLogs')
       /\ GoneWithUser(userActions, userActions')
       /\ GoneWithUser(loginLogs, loginLogs')]_vars

\* a user was deleted and rows went with them: among the user actions that remain,
\* ids below the highest are missing, and a login row of no user is still there
C10_RowsCascaded ==
    /\ resp.op = "delete_user" /\ resp.status = 200
    /\ \E r \in userActions : \E i \in 1..r.id : i \notin RowIds(userActions)
    /\ \E r \in loginLogs : r.user_id = NoUser

----------------------------------------------------------------------------
\* The password specification: registrations and password changes with
\* passwords of seven and eight characters, with and without ASCII and other
\* letters and digits

PolicyChars == {"a", "1", "U+00E9", "U+0663", "-"}
PolicyLengths == {MinPasswordLen - 1, MinPasswordLen}
PolicyPasswords ==
    {[i \in 1..n |-> IF i = 1 THEN x ELSE IF i = 2 THEN y ELSE "-"] :
        x \in PolicyChars, y \in PolicyChars, n \in PolicyLengths}

RegisterAnnWith == \E p \in PolicyPasswords : RegisterCheck("c2", NameAnn, EmailAnn, p, 1)
AdminLogin == session["c1"] = NoUser /\ Login("c1", AdminName, AdminPassword)
\* the caller gives the password the account has, or none
PasswordChange ==
    \E p \in PolicyPasswords :
        \E cur \in {<<>>} \cup {q \in PolicyPasswords \cup {AdminPassword} :
                                  /\ current_user("c1") # NoUser
                                  /\ check_password_hash(users[current_user("c1")].password_hash, q)} :
            ChangePassword("c1", cur, p)

NextPassword ==
    \/ RegisterAnnWith
    \/ RegisterCommitUser
    \/ RegisterCommitCode
    \/ AdminLogin
    \/ PasswordChange

SpecPassword == Init /\ [][NextPassword]_vars

HasOneOf(password, chars) == {k \in DOMAIN password : password[k] \in chars} # {}

\* the rule a password breaks, length first, then letter, then digit, or "";
\* letters are the characters of this set
BrokenRule(password, letters) ==
    IF Len(password) < 8 THEN "Password must be at least 8 characters long"
    ELSE IF ~ HasOneOf(password, letters) THEN "Password must contain at least one letter"
    ELSE IF ~ HasOneOf(password, DecimalDigits) THEN "Password must contain at least one number"
    ELSE ""

\* register and change-password follow the rule with these letters: a password that
\* breaks it is answered 400 with the message of the first broken rule and nothing
\* is stored, and a hash is stored only of a password that breaks none
FollowsPolicy(letters) ==
    /\ (req' # req \/ (resp' # resp /\ resp'.op = "register")) =>
         \A c \in Clients : \A p \in PolicyPasswords :
            RegisterCheck(c, NameAnn, EmailAnn, p, 1) =>
              /\ validate_password(p) <=> BrokenRule(p, letters) = ""
              /\ BrokenRule(p, letters) # "" =>
                   resp'.status = 400 /\ resp'.error = BrokenRule(p, letters) /\ req' = req
              /\ req'[c].pc # "idle" => req'[c].password = p /\ BrokenRule(p, letters) = ""
    /\ (resp' # resp /\ resp'.op = "change_password") =>
         \A c \in {d \in Clients : current_user(d) # NoUser} :
            \A cur \in {q \in PolicyPasswords \cup {AdminPassword} :
                          check_password_hash(users[current_user(c)].password_hash, q)} :
               \A p \in PolicyPasswords :
                  ChangePassword(c, cur, p) =>
                    /\ BrokenRule(p, letters) # "" =>
                         resp'.status = 400 /\ resp'.error = BrokenRule(p, letters) /\ users' = users
                    /\ BrokenRule(p, letters) = "" =>
                         /\ resp'.status = 200
                         /\ users'[current_user(c)].password_hash = generate_password_hash(p)

\* C11 as stated: a password is accepted if and only if it has at least 8
\* characters, a letter and a digit, where every letter counts
C11_PolicyAnyLetter == [][FollowsPolicy(Letters \cup OtherLetters)]_vars

\* C11 as amended: a password is accepted if and only if it has at least 8
\* characters, an ASCII letter and a decimal digit; otherwise it is rejected with
\* the message of the first broken rule (length, letter, digit); register and
\* change-password store the hash of a password only when it is accepted
C11_PolicyAsciiLetter ==
    [][/\ FollowsPolicy(Letters)
       /\ \A u \in DOMAIN users' :
            (u \notin DOMAIN users \/ users'[u].password_hash # users[u].password_hash)
              => \E p \in PolicyPasswords :
                    /\ users'[u].password_hash = generate_password_hash(p)
                    /\ Len(p) >= 8 /\ HasOneOf(p, Letters) /\ HasOneOf(p, DecimalDigits)
      ]_vars

\* a password with a letter outside ASCII and a digit was refused for want of a
\* letter, while an account holds a password whose digit is outside ASCII
C11_AcceptedAndRefused ==
    /\ resp.status = 400 /\ resp.error = "Password must contain at least one letter"
    /\ \E u \in DOMAIN users : \E p \in PolicyPasswords :
          /\ users[u].password_hash = generate_password_hash(p)
          /\ HasOneOf(p, OtherDigits) /\ ~ HasOneOf(p, Digits)

----------------------------------------------------------------------------
\* app.py: the model invocation adapter

\* what bedrock_runtime.invoke_model does: it answers a body the function can use,
\* a body without the fields it reads, a body that is not JSON, or raises
ProviderOutcomes == {"ok", "other_fields", "not_json", "ClientError"}

Returned(fn, value, calls) == [fn |-> fn, raised |-> FALSE, value |-> value, calls |-> calls]

invoke_llama_raising(bedrock_runtime, outcome) ==
    IF ~ bedrock_runtime
      THEN Returned("invoke_llama", [error |-> "AWS Bedrock client not initialized"], {})
      ELSE [fn |-> "invoke_llama", raised |-> outcome = "ClientError",
            value |-> [response |-> "generation"], calls |-> {"bedrock.invoke_model"}]

\* invoke_llama: a body without 'generation' or 'outputs' is returned as its own text
invoke_llama(bedrock_runtime, outcome) ==
    IF ~ bedrock_runtime
      THEN Returned("invoke_llama", [error |-> "AWS Bedrock client not initialized"], {})
    ELSE IF outcome = "ClientError"
      THEN Returned("invoke_llama", [error |-> "AWS Bedrock error"], {"bedrock.invoke_model"})
    ELSE IF outcome = "not_json"
      THEN Returned("invoke_llama", [error |-> "Unexpected error"], {"bedrock.invoke_model"})
    ELSE IF outcome = "other_fields"
      THEN Returned("invoke_llama", [response |-> "json.dumps(response_body)"],
                    {"bedrock.invoke_model"})
    ELSE Returned("invoke_llama", [response |-> "generation"], {"bedrock.invoke_model"})

\* invoke_titan_image: a body without images[0] raises inside the try
invoke_titan_image(bedrock_runtime, outcome) ==
    IF ~ bedrock_runtime
      THEN Returned("invoke_titan_image", [error |-> "AWS Bedrock client not initialized"], {})
    ELSE IF outcome = "ClientError"
      THEN Returned("invoke_titan_image", [error |-> "AWS Bedrock error"],
                    {"bedrock.invoke_model"})
    ELSE IF outcome \in {"not_json", "other_fields"}
      THEN Returned("invoke_titan_image", [error |-> "Unexpected error"],
                    {"bedrock.invoke_model"})
    ELSE Returned("invoke_titan_image", [image |-> "images[0]"], {"bedrock.invoke_model"})

\* one call of each, as chat, code_chat, generate_image and the analyzers make it
InvokeLlama(outcome) ==
    LET r == invoke_llama(aws.bedrock_runtime, outcome)
    IN  /\ invoked' = [fn |-> r.fn, raised |-> r.raised, value |-> r.value]
        /\ provider' = r.calls
        /\ UNCHANGED <<users, codes, searchLogs, userActions, loginLogs, session, req, resp,
                       now, env, aws, getting, files, upload, job>>

InvokeTitanImage(outcome) ==
    LET r == invoke_titan_image(aws.bedrock_runtime, outcome)
    IN  /\ invoked' = [fn |-> r.fn, raised |-> r.raised, value |-> r.value]
        /\ provider' = r.calls
        /\ UNCHANGED <<users, codes, searchLogs, userActions, loginLogs, session, req, resp,
                       now, env, aws, getting, files, upload, job>>

\* generate_image: the text logged is fixed when the result holds an image
ImageText(value) ==
    IF "image" \in DOMAIN value THEN "Image generated successfully" ELSE value.error

GenerateImage(c, has_prompt, outcome) ==
    LET r == invoke_titan_image(aws.bedrock_runtime, outcome)
    IN  /\ req[c].pc = "idle"
        /\ \/ /\ Unauthorized(c, "image_gen")
              /\ UNCHANGED <<searchLogs, userActions, provider>>
           \/ /\ is_authenticated(c)
              /\ IF ~ has_prompt
                   THEN /\ resp' = Reply("image_gen", 400, "Prompt is required")
                        /\ UNCHANGED <<searchLogs, userActions, provider>>
                   ELSE /\ RoomFor(userActions, MaxActionRows)
                        /\ RoomFor(searchLogs, MaxSearchRows)
                        /\ userActions' = LoggedAction(c, "image_generation_request")
                        /\ provider' = r.calls
                        /\ searchLogs' = searchLogs
                               \cup {SearchRow(current_user(c), "image_gen", ImageText(r.value))}
                        /\ resp' = [op |-> "image_gen", status |-> 200,
                                    error |-> IF "error" \in DOMAIN r.value
                                                THEN r.value.error ELSE "",
                                    body |-> r.value]
        /\ UNCHANGED <<users, codes, loginLogs, session, req, now, env, aws, getting,
                       invoked, files, upload, job>>

----------------------------------------------------------------------------
\* app.py health_check and AWSCredentialManager.get_session, a thread at a time

\* get_credentials_info once the session is there: the identity call decides
CredentialsInfo(session_source, e) ==
    IF session_source # None /\ StsOf(session_source, e) = "identity"
      THEN session_source ELSE <<"Unknown">>

HealthBodyAlwaysAvailable(source) ==
    [kind |-> "health", bedrock_available |-> TRUE, source |-> source]

HealthBody(source) ==
    [kind |-> "health", bedrock_available |-> aws.bedrock_runtime, source |-> source]

HealthReply(source) ==
    [op |-> "health_check", status |-> 200, error |-> "", body |-> HealthBody(source)]

\* health_check up to `if self._session is None`: with a session it answers at once
HealthCheck(t) ==
    /\ getting[t].pc = "idle"
    /\ IF aws.session # 0
         THEN /\ resp' = HealthReply(CredentialsInfo(aws.credentials_source, env))
              /\ getting' = getting
         ELSE /\ getting' = [getting EXCEPT ![t] = [pc |-> "create", raised |-> "", message |-> ""]]
              /\ resp' = resp
    /\ UNCHANGED <<users, codes, searchLogs, userActions, loginLogs, session, req, now,
                   env, aws, invoked, provider, files, upload, job>>

\* self._session = self._create_session(), then the rest of health_check
HealthCreate(t) ==
    LET made == create_session(aws.profile_name, env)
    IN  /\ getting[t].pc = "create"
        /\ getting' = [getting EXCEPT ![t] = Left(made.raised, made.message)]
        /\ IF made.raised = ""
             THEN /\ aws.sessions < MaxSessions
                  /\ aws' = [aws EXCEPT !.session = aws.sessions + 1,
                                        !.sessions = aws.sessions + 1,
                                        !.credentials_source = made.source]
                  /\ resp' = HealthReply(CredentialsInfo(made.source, env))
             ELSE /\ aws' = aws
                  /\ resp' = HealthReply(<<"Unknown">>)
        /\ UNCHANGED <<users, codes, searchLogs, userActions, loginLogs, session, req, now,
                       env, invoked, provider, files, upload, job>>

\* the environment changes under the running process: credentials are issued,
\* expire or are revoked
EnvChange(source, sts) ==
    /\ env' = [env EXCEPT ![source] = sts]
    /\ env' # env
    /\ UNCHANGED <<users, codes, searchLogs, userActions, loginLogs, session, req, resp, now,
                   aws, getting, invoked, provider, files, upload, job>>

----------------------------------------------------------------------------
\* app.py _wait_for_textract_job: the poll loop, a statement at a time; the clock
\* is time.time() in seconds

TerminalOnlySucceeded == {"SUCCEEDED"}
TerminalStatuses == {"SUCCEEDED", "FAILED", "PARTIAL_SUCCESS"}
JobStatuses == {"IN_PROGRESS", "SUCCEEDED", "FAILED", "PARTIAL_SUCCESS"}

\* start = time.time(), and the loop is entered
WaitForJob(poll_seconds, timeout_seconds, at) ==
    /\ job.pc = "idle"
    /\ job' = [pc |-> "check", poll_seconds |-> poll_seconds,
               timeout_seconds |-> timeout_seconds, start |-> at, clock |-> at,
               checks |-> 0, issued |-> at, done |-> at, before |-> at, status |-> ""]
    /\ UNCHANGED <<users, codes, searchLogs, userActions, loginLogs, session, req, resp, now,
                   env, aws, getting, invoked, provider, files, upload>>

\* get_document_text_detection takes `took` seconds and answers `status`; then the
\* two tests of the loop body
JobCheck(status, took) ==
    LET clock == job.clock + took
    IN  /\ job.pc = "check"
        /\ job' = [job EXCEPT
                     !.pc = IF status \in TerminalStatuses THEN "returned"
                            ELSE IF clock - job.start > job.timeout_seconds THEN "TimeoutError"
                            ELSE "sleep",
                     !.clock = clock, !.checks = job.checks + 1, !.issued = job.clock,
                     !.done = clock, !.before = job.done, !.status = status]
        /\ provider' = {"textract.get_document_text_detection"}
        /\ UNCHANGED <<users, codes, searchLogs, userActions, loginLogs, session, req, resp,
                       now, env, aws, getting, invoked, files, upload>>

\* time.sleep(poll_seconds)
JobSleep ==
    /\ job.pc = "sleep"
    /\ job' = [job EXCEPT !.pc = "check", !.clock = job.clock + job.poll_seconds]
    /\ UNCHANGED <<users, codes, searchLogs, userActions, loginLogs, session, req, resp, now,
                   env, aws, getting, invoked, provider, files, upload>>

----------------------------------------------------------------------------
\* app.py document_analyze and analyze_image, config.py Config.allowed_file

Png == <<"p", "n", "g">>
Jpg == <<"j", "p", "g">>
Jpeg == <<"j", "p", "e", "g">>
Tif == <<"t", "i", "f">>
Tiff == <<"t", "i", "f", "f">>
Txt == <<"t", "x", "t">>
Md == <<"m", "d">>
Docx == <<"d", "o", "c", "x">>
Doc == <<"d", "o", "c">>
Pdf == <<"p", "d", "f">>
Gif == <<"g", "i", "f">>

ALLOWED_EXTENSIONS == {Txt, Pdf, Png, Jpg, Jpeg, Gif, Doc, Docx}

\* a filename: what stands before the stem, the stem, and what follows the last dot
\* (<<>> when the name has no dot); NoName is ''
NoName == [dir |-> "", stem |-> "", ext |-> <<>>]
allowed_file(filename) == filename.ext # <<>> /\ Lower(filename.ext) \in ALLOWED_EXTENSIONS

\* werkzeug secure_filename on these names: the directory part goes, the rest stays
secure_filename(filename) == [filename EXCEPT !.dir = ""]
FilePath(filename) == <<"uploads", filename>>
\* os.path.splitext(filename)[1].lower(), without the dot
SplitExt(filename) == Lower(filename.ext)

\* what the providers and the file do to one analysis
Outcomes == {"ok", "vision_fails", "s3_fails", "job_fails", "timeout", "unreadable",
             "llm_fails", "job_failed", "job_partial"}
\* the status _wait_for_textract_job returns when it returns
JobStatus(o) ==
    IF o = "job_failed" THEN "FAILED"
    ELSE IF o = "job_partial" THEN "PARTIAL_SUCCESS" ELSE "SUCCEEDED"
VisionCalls == {"rekognition.detect_labels", "rekognition.detect_text",
                "textract.detect_document_text"}
PdfNeedsBucket ==
    "PDF OCR requires configuring TEXTRACT_S3_BUCKET in backend .env. Provide an S3 bucket and permissions for Textract."
UnsupportedType ==
    "Unsupported file type for OCR in this setup. Use PNG/JPG for scans, TXT/MD for text, DOCX for Word docs. PDF OCR requires S3+Textract (async)."

Result(value, calls) == [raised |-> FALSE, value |-> value, calls |-> calls]
Raises(calls) == [raised |-> TRUE, value |-> [error |-> "exception"], calls |-> calls]
LlamaOutcome(o) == IF o = "llm_fails" THEN "ClientError" ELSE "ok"
Analysed(a, o, calls) ==
    LET llm == invoke_llama(a.bedrock_runtime, LlamaOutcome(o))
    IN  Result(llm.value, calls \cup llm.calls)

\* analyze_image_with_vision_and_ocr: the text of invoke_llama if it gives one, else
\* the draft; every exception becomes {error}
analyze_image_with_vision_and_ocr(present, o, a) ==
    IF ~ a.vision_clients
      THEN Result([error |-> "AWS Rekognition/Textract clients not initialized"], {})
    ELSE IF ~ present THEN Result([error |-> "Unexpected error"], {})
    ELSE IF o = "vision_fails"
      THEN Result([error |-> "AWS vision/OCR error"], {"rekognition.detect_labels"})
    ELSE LET llm == invoke_llama(a.bedrock_runtime, LlamaOutcome(o))
         IN  Result([response |-> IF "response" \in DOMAIN llm.value
                                    THEN llm.value.response ELSE "draft_summary"],
                    VisionCalls \cup llm.calls)

\* the .pdf branch: upload, start the job, poll, collect, invoke_llama; the status
\* the poll returns is not assigned, so what follows is the same for each
PdfBranch(present, o, e, a) ==
    IF e.TEXTRACT_S3_BUCKET = "" THEN Result([error |-> PdfNeedsBucket], {})
    ELSE IF ~ a.vision_clients THEN Raises({})
    ELSE IF ~ present \/ o = "s3_fails" THEN Raises({"s3.upload_file"})
    ELSE IF o = "job_fails"
      THEN Raises({"s3.upload_file", "textract.start_document_text_detection"})
    ELSE IF o = "timeout"
      THEN Raises({"s3.upload_file", "textract.start_document_text_detection",
                   "textract.get_document_text_detection"})
    ELSE Analysed(a, o, {"s3.upload_file", "textract.start_document_text_detection",
                         "textract.get_document_text_detection", "_collect_textract_pages"})

\* the branches of document_analyze by extension, up to `result`
Dispatch(ext, present, o, e, a) ==
    IF ext \in {Png, Jpg, Jpeg, Tif, Tiff}
      THEN analyze_image_with_vision_and_ocr(present, o, a)
    ELSE IF ext = Pdf THEN PdfBranch(present, o, e, a)
    ELSE IF ext \in {Txt, Md}
      THEN IF ~ present THEN Raises({}) ELSE Analysed(a, o, {})
    ELSE IF ext = Docx
      THEN IF ~ present \/ o = "unreadable"
             THEN Result([error |-> "Failed to read DOCX"], {"docx.Document"})
             ELSE Analysed(a, o, {"docx.Document"})
    ELSE IF ext = Doc
      THEN IF e.tools = {} THEN Result([error |-> "DOC extraction prerequisites missing"], {})
           ELSE IF ~ present \/ o = "unreadable"
             THEN Result([error |-> "Failed to read DOC"], {"subprocess.check_output"})
           ELSE Analysed(a, o, {"subprocess.check_output"})
    ELSE Result([error |-> UnsupportedType], {})

Handlers == {"document_analyze", "analyze_image"}
NoFileError(handler) ==
    IF handler = "document_analyze" THEN "No file uploaded" ELSE "No image uploaded"
SearchType(handler) == IF handler = "document_analyze" THEN "document" ELSE "image_analyze"
ProcessingError(handler) ==
    IF handler = "document_analyze" THEN "Error processing document"
    ELSE "Error processing image"
Text(value) == IF "response" \in DOMAIN value THEN value.response ELSE value.error
UploadReply(handler, status, value) ==
    [op |-> handler, status |-> status,
     error |-> IF "error" \in DOMAIN value THEN value.error ELSE "", body |-> value]

\* either handler up to the try: the checks, file.save and the file_upload row
Receive(r, handler, c, has_file, filename) ==
    /\ upload[r].pc = "idle"
    /\ \/ /\ Unauthorized(c, handler)
          /\ UNCHANGED <<userActions, files, upload>>
       \/ /\ is_authenticated(c)
          /\ IF ~ has_file
               THEN /\ resp' = Reply(handler, 400, NoFileError(handler))
                    /\ UNCHANGED <<userActions, files, upload>>
             ELSE IF filename = NoName
               THEN /\ resp' = Reply(handler, 400, "No file selected")
                    /\ UNCHANGED <<userActions, files, upload>>
             ELSE IF ~ allowed_file(filename)
               THEN /\ resp' = Reply(handler, 400, "Invalid file type")
                    /\ UNCHANGED <<userActions, files, upload>>
             ELSE /\ RoomFor(userActions, MaxActionRows)
                  /\ files' = files \cup {FilePath(secure_filename(filename))}
                  /\ userActions' = LoggedAction(c, "file_upload")
                  /\ upload' = [upload EXCEPT ![r] =
                        [pc |-> "saved", handler |-> handler, user |-> current_user(c),
                         filename |-> secure_filename(filename),
                         filepath |-> FilePath(secure_filename(filename))]]
                  /\ resp' = resp
    /\ UNCHANGED <<users, codes, searchLogs, loginLogs, session, req, now,
                   env, aws, getting, invoked, provider, job>>

\* either handler from the try on: the analysis, the search_logs row, os.remove and
\* the answer; an exception anywhere in it is answered 500 by the except clause
Finish(r, o) ==
    LET u == upload[r]
        present == u.filepath \in files
        done == IF u.handler = "document_analyze"
                  THEN Dispatch(SplitExt(u.filename), present, o, env, aws)
                  ELSE analyze_image_with_vision_and_ocr(present, o, aws)
    IN  /\ u.pc = "saved"
        /\ upload' = [upload EXCEPT ![r] = NoUpload]
        /\ provider' = done.calls
        /\ IF done.raised
             THEN /\ resp' = Reply(u.handler, 500, ProcessingError(u.handler))
                  /\ UNCHANGED <<searchLogs, files>>
             ELSE /\ RoomFor(searchLogs, MaxSearchRows)
                  /\ searchLogs' = searchLogs
                        \cup {SearchRow(u.user, SearchType(u.handler), Text(done.value))}
                  /\ IF present
                       THEN /\ files' = files \ {u.filepath}
                            /\ resp' = UploadReply(u.handler, 200, done.value)
                       ELSE /\ files' = files
                            /\ resp' = Reply(u.handler, 500, ProcessingError(u.handler))
        /\ UNCHANGED <<users, codes, userActions, loginLogs, session, req, now,
                       env, aws, getting, invoked, job>>

----------------------------------------------------------------------------
\* The environments a process is started in

ProfileNames == {"", "dev"}
Envs ==
    {[BareEnv EXCEPT !.AWS_PROFILE = n, !.profile = p, !.chain = c, !.keys = k] :
        n \in ProfileNames, p \in StsOutcomes \cup {"ProfileNotFound"},
        c \in StsOutcomes, k \in StsOutcomes \cup {"unset"}}

InitAnyEnv == InitDb /\ \E e \in Envs : InitApp(e)

HealthRequest == \E t \in Threads : HealthCheck(t)
SessionCreate == \E t \in Threads : HealthCreate(t)
LlamaCall == \E o \in ProviderOutcomes : InvokeLlama(o)
TitanImageCall == \E o \in ProviderOutcomes : InvokeTitanImage(o)
CredentialsChange ==
    \/ \E sts \in StsOutcomes \cup {"ProfileNotFound"} : EnvChange("profile", sts)
    \/ \E sts \in StsOutcomes : EnvChange("chain", sts)
    \/ \E sts \in StsOutcomes \cup {"unset"} : EnvChange("keys", sts)

----------------------------------------------------------------------------
\* The health specification: a process in an environment that does not change

NextHealth ==
    \/ HealthRequest
    \/ SessionCreate
    \/ LlamaCall
    \/ TitanImageCall

SpecHealth == InitAnyEnv /\ [][NextHealth]_vars

SuccessKey(fn) == IF fn = "invoke_llama" THEN "response" ELSE "image"

\* C16: invoke_llama and invoke_titan_image never raise; whatever the provider does,
\* the return is a mapping with exactly one key, the success key (response, image)
\* or error; without a client the error is returned and the provider is not called
C16_NeverRaises ==
    [][invoked' # invoked \/ provider' # provider =>
         /\ ~ invoked'.raised
         /\ DOMAIN invoked'.value \in {{SuccessKey(invoked'.fn)}, {"error"}}
         /\ ~ aws.bedrock_runtime =>
               /\ DOMAIN invoked'.value = {"error"}
               /\ invoked'.value.error = "AWS Bedrock client not initialized"
               /\ provider' = {}
         /\ \A o \in {"ClientError", "not_json"} :
               (InvokeLlama(o) \/ InvokeTitanImage(o)) => DOMAIN invoked'.value = {"error"}
         /\ (aws.bedrock_runtime /\ (InvokeLlama("ok") \/ InvokeTitanImage("ok")))
               => DOMAIN invoked'.value = {SuccessKey(invoked'.fn)}
      ]_vars

\* both returns are seen: an error after the provider was called
C16_ErrorAfterCall ==
    /\ invoked.fn = "invoke_titan_image"
    /\ DOMAIN invoked.value = {"error"}
    /\ provider = {"bedrock.invoke_model"}

\* C19: calls of /api/health in an unchanged environment report the same
\* bedrock_available, true exactly when the credential resolution succeeds, and it
\* agrees with whether the source of the same response was resolved
C19_HealthStable ==
    [][resp'.op = "health_check" =>
         /\ resp'.body.bedrock_available = (create_session(aws.profile_name, env).raised = "")
         /\ resp'.body.bedrock_available = (resp'.body.source # <<"Unknown">>)
         /\ resp.op = "health_check"
               => resp'.body.bedrock_available = resp.body.bedrock_available
      ]_vars

\* a health call that ran the resolution again, and it failed again
C19_FailedAgain ==
    /\ resp.op = "health_check"
    /\ ~ resp.body.bedrock_available
    /\ \E t \in Threads : getting[t].pc = "idle" /\ getting[t].raised # ""

----------------------------------------------------------------------------
\* The session specification: credentials come and go under the running process

NextSession ==
    \/ HealthRequest
    \/ SessionCreate
    \/ CredentialsChange

SpecSession == InitAnyEnv /\ [][NextSession]_vars

Order(profile_name) ==
    IF profile_name = "" THEN <<"chain", "keys">> ELSE <<"profile", "chain", "keys">>
Passing(profile_name, e) ==
    {i \in DOMAIN Order(profile_name) : e[Order(profile_name)[i]] = "identity"}
SourceNamed(name, profile_name) ==
    IF name = "profile" THEN ProfileSource(profile_name)
    ELSE IF name = "chain" THEN ChainSource ELSE KeysSource

\* C17: a resolution tries the named profile (if one is configured), the default
\* chain and the key pair of the environment in this order, returns the session of
\* the first whose identity check passes and records that source; it fails, with
\* NoCredentialsError and the remediation message, exactly when every source fails
C17_FirstPassingSource ==
    [][\A t \in Threads :
         (getting[t].pc = "create" /\ getting'[t].pc = "idle") =>
            LET passing == Passing(aws.profile_name, env)
                first == CHOOSE i \in passing : \A j \in passing : i <= j
            IN  IF passing # {}
                  THEN /\ getting'[t].raised = ""
                       /\ aws'.session # 0
                       /\ aws'.credentials_source =
                             SourceNamed(Order(aws.profile_name)[first], aws.profile_name)
                  ELSE /\ getting'[t].raised = "NoCredentialsError"
                       /\ getting'[t].message = Remediation
      ]_vars

\* C18: once get_session has succeeded, later calls return the same session
\* without running the resolution again, and the recorded source never changes;
\* the manager is the same instance on every call
C18_SessionMemoized ==
    [][aws.session # 0 =>
         /\ aws'.session = aws.session
         /\ aws'.credentials_source = aws.credentials_source
         /\ aws'.credential_manager = aws.credential_manager
         /\ \A t \in Threads : ~ (getting[t].pc = "create" /\ getting'[t].pc = "idle")
      ]_vars

\* C24: a failure of the named profile never aborts the resolution: whenever the
\* profile is missing or its identity check fails (missing credentials, or any
\* provider error code, an invalid or expired token included), the default chain
\* and then the key pair are tried as if no profile had been named first, and the
\* resolution ends as they end
C24_ProfileFailureFallsThrough ==
    [][\A t \in Threads :
         (/\ getting[t].pc = "create" /\ getting'[t].pc = "idle"
          /\ aws.profile_name # "" /\ env.profile # "identity") =>
            LET rest == FromChain(env, <<"profile">>)
            IN  /\ getting'[t].raised = rest.raised
                /\ rest.raised = "" =>
                      aws'.session # 0 /\ aws'.credentials_source = rest.source
      ]_vars

\* C26: when several threads are in get_session before any has completed, the
\* session field is assigned at most once, every caller receives the same session
\* and the recorded source is not changed after it is first set
C26_ConcurrentFirstUse ==
    [][\A t \in Threads :
         (getting[t].pc = "create" /\ getting'[t].pc = "idle" /\ getting'[t].raised = "") =>
            /\ aws'.sessions <= 1
            /\ aws.session # 0 => aws'.session = aws.session
            /\ aws.credentials_source # None
                  => aws'.credentials_source = aws.credentials_source
      ]_vars

----------------------------------------------------------------------------
\* The upload specification: two uploads at a time, in every configuration

Xyz == <<"x", "y", "z">>
PdfUpper == <<"P", "D", "F">>
UploadExts == {Png, Jpg, Jpeg, Tif, Tiff, Txt, Md, Docx, Doc, Pdf, Gif, Xyz, PdfUpper, <<>>}
Filenames ==
    {[dir |-> "", stem |-> "a", ext |-> x] : x \in UploadExts}
        \cup {[dir |-> "../", stem |-> "a", ext |-> Pdf], NoName}
UploadEnvs ==
    {[BareEnv EXCEPT !.chain = c, !.TEXTRACT_S3_BUCKET = b, !.tools = t] :
        c \in {"identity", "NoCredentialsError"}, b \in {"", "docs"},
        t \in {{}, {"antiword"}}}

InitUpload == InitDb /\ \E e \in UploadEnvs : InitApp(e)

DocumentUpload ==
    \E r \in UploadRequests : \E c \in Clients : \E f \in Filenames :
        Receive(r, "document_analyze", c, TRUE, f)
ImageUpload ==
    \E r \in UploadRequests : \E c \in Clients : \E f \in Filenames :
        Receive(r, "analyze_image", c, TRUE, f)
UploadWithoutFile ==
    \E r \in UploadRequests : \E h \in Handlers : Receive(r, h, "c1", FALSE, NoName)
AnalysisDone == \E r \in UploadRequests : \E o \in Outcomes : Finish(r, o)

NextUpload ==
    \/ AdminLogin
    \/ DocumentUpload
    \/ ImageUpload
    \/ UploadWithoutFile
    \/ AnalysisDone

SpecUpload == InitUpload /\ [][NextUpload]_vars

Finishes(r) == upload[r].pc = "saved" /\ upload'[r].pc = "idle"

\* C12: every document-analyze and analyze-image request that saved an uploaded
\* file has that file deleted when it finishes, however it finishes
C12_ScratchFileRemoved ==
    [][\A r \in UploadRequests : Finishes(r) => upload[r].filepath \notin files']_vars

\* C13: two uploads in flight never use the same path in the upload directory
C13_PathsDiffer ==
    \A r1, r2 \in UploadRequests :
        (r1 # r2 /\ upload[r1].pc = "saved" /\ upload[r2].pc = "saved")
            => upload[r1].filepath # upload[r2].filepath

\* C14: a .pdf sent to document-analyze when no bucket is configured is answered
\* with the error that names TEXTRACT_S3_BUCKET, and nothing is uploaded, no OCR
\* job is started or polled and the text model is not invoked
C14_PdfNeedsBucket ==
    [][\A r \in UploadRequests :
         (/\ Finishes(r)
          /\ upload[r].handler = "document_analyze"
          /\ SplitExt(upload[r].filename) = Pdf
          /\ env.TEXTRACT_S3_BUCKET = "")
            => resp'.error = PdfNeedsBucket /\ provider' = {}]_vars

ClaimedKinds == {Png, Jpg, Jpeg, Tif, Tiff, Txt, Md, Docx, Doc, Pdf}
OcrCalls == VisionCalls \cup {"s3.upload_file", "textract.start_document_text_detection",
                              "textract.get_document_text_detection"}

\* C15: document_analyze takes the route of the file's extension: png, jpg, jpeg,
\* tif and tiff go to OCR and vision, txt and md are read without OCR, docx goes
\* to the document library, doc to the external tool, pdf to the OCR job; any other
\* extension is answered with the 'unsupported' error that names the supported
\* formats, and its file is not written
C15_DispatchByExtension ==
    [][\A r \in UploadRequests : \A c \in Clients : \A f \in Filenames \ {NoName} :
         /\ (is_authenticated(c) /\ Receive(r, "document_analyze", c, TRUE, f)) =>
               IF Lower(f.ext) \in ClaimedKinds
                 THEN upload'[r].pc = "saved"
                 ELSE /\ resp'.error = UnsupportedType
                      /\ files' = files
         /\ (Finishes(r) /\ upload[r].handler = "document_analyze"
             /\ upload[r].filepath \in files) =>
               LET ext == SplitExt(upload[r].filename)
               IN  /\ ext \in {Txt, Md} => provider' \cap OcrCalls = {}
                   /\ ext = Docx => "docx.Document" \in provider'
                   /\ ext \in {Png, Jpg, Jpeg, Tif, Tiff} /\ aws.vision_clients
                         => "rekognition.detect_labels" \in provider'
      ]_vars

----------------------------------------------------------------------------
\* The listing specification: the admin, logged in, pages through a history of
\* up to one row more than the cap

ManyRows == MaxPerPage + 1
LoginCounts == {1, 3, ManyRows}
ChatCounts == {0, 2}
Stamp(i, n) == IF 2 * i > n THEN MaxTime ELSE 0

\* n attempts to log in as the admin, the last of them right, then m chats
InitHistory(n, m) ==
    /\ users = Put(<<>>, 1, [NewUser(AdminName, AdminEmail, AdminPassword, TRUE, NoCode)
                                EXCEPT !.last_login = MaxTime])
    /\ codes = Put(<<>>, 1, [expires_at |-> SeedCodeExpiry, used_by_user_id |-> NoUser])
    /\ loginLogs = {[id |-> i, user_id |-> 1, username_attempted |-> AdminName,
                     success |-> i = n,
                     failure_reason |-> IF i = n THEN "" ELSE "invalid_password",
                     login_time |-> Stamp(i, n)] : i \in 1..n}
    /\ userActions = {[id |-> i, user_id |-> 1,
                       action_type |-> IF i = 1 THEN "login" ELSE "chat_request",
                       timestamp |-> MaxTime] : i \in 1..(m + 1)}
    /\ searchLogs = {[id |-> i, user_id |-> 1, search_type |-> "chat",
                      response |-> "response", timestamp |-> MaxTime] : i \in 1..m}
    /\ session = [c \in Clients |-> IF c = "c1" THEN 1 ELSE NoUser]
    /\ req = [c \in Clients |-> Idle]
    /\ resp = Reply("none", 0, "")
    /\ now = MaxTime

InitPages == (\E n \in LoginCounts : \E m \in ChatCounts : InitHistory(n, m)) /\ InitApp(BareEnv)

LoginPageRequests ==
    {<<1, 1>>, <<2, 1>>, <<3, 1>>, <<4, 1>>, <<1, 2>>, <<2, 2>>, <<1, 0>>,
     <<1, MaxPerPage>>, <<2, MaxPerPage>>, <<1, ManyRows>>, <<2, ManyRows>>}
PageRequests == {pn \in LoginPageRequests : pn[2] < MaxPerPage} \cup {<<1, ManyRows>>}

LoginLogPage == \E pn \in LoginPageRequests : GetLoginLogs("c1", pn[1], pn[2])
UserActionPage == \E pn \in PageRequests : GetUserActions("c1", pn[1], pn[2], "")
SearchLogPage == \E pn \in PageRequests : GetSearchLogs("c1", pn[1], pn[2], "")

NextPages ==
    \/ LoginLogPage
    \/ UserActionPage
    \/ SearchLogPage

SpecPages == InitPages /\ [][NextPages]_vars

Listings == {"get_login_logs", "get_user_actions", "get_search_logs"}
Listed(op) ==
    Mine(IF op = "get_login_logs" THEN loginLogs
         ELSE IF op = "get_user_actions" THEN userActions ELSE searchLogs,
         current_user("c1"))
TimeOf(op, row) == IF op = "get_login_logs" THEN row.login_time ELSE row.timestamp
\* the place of a row in the newest-first order, rows of one time in the order of
\* their ids
Rank(op, row) ==
    1 + Cardinality({q \in Listed(op) :
                        \/ TimeOf(op, q) > TimeOf(op, row)
                        \/ TimeOf(op, q) = TimeOf(op, row) /\ q.id < row.id})

\* C20: a log listing returns at most 100 items and applies a per_page of at most
\* 100; of N rows, page p >= 1 with per_page k in 1..100 holds the rows
\* (p-1)*k+1 .. min(p*k, N) of the newest-first order, has_next is true exactly
\* when p*k < N and has_prev exactly when p > 1
C20_PageIsSlice ==
    (resp.op \in Listings /\ resp.status = 200) =>
        LET b == resp.body
            p == b.page
            k == b.per_page
            N == Cardinality(Listed(resp.op))
        IN  /\ Len(b.items) <= 100
            /\ k <= 100
            /\ (p >= 1 /\ k \in 1..100) =>
                  /\ DOMAIN b.items = 1..(Min(p * k, N) - Min((p - 1) * k, N))
                  /\ \A i \in DOMAIN b.items :
                        /\ b.items[i] \in Listed(resp.op)
                        /\ Rank(resp.op, b.items[i]) = (p - 1) * k + i
                  /\ b.has_next <=> p * k < N
                  /\ b.has_prev <=> p > 1

\* the cap at work: 100 of 101 rows on the first page, and a page follows
C20_CappedPage ==
    /\ resp.op = "get_login_logs"
    /\ Len(resp.body.items) = MaxPerPage
    /\ resp.body.total = ManyRows
    /\ resp.body.page = 1 /\ resp.body.has_next /\ ~ resp.body.has_prev

----------------------------------------------------------------------------
\* The service specification: the five AI endpoints, called by the admin

ServiceFilenames == {[dir |-> "", stem |-> "a", ext |-> x] : x \in {Txt, Pdf, Png, Doc, Gif}}

ChatRequest ==
    \E t \in ChatTypes : \E m \in BOOLEAN : \E o \in {"response", "error"} : Chat("c1", t, m, o)
ImageRequest == \E m \in BOOLEAN : \E o \in ProviderOutcomes : GenerateImage("c1", m, o)
DocumentRequest ==
    \E r \in UploadRequests : \E f \in ServiceFilenames :
        Receive(r, "document_analyze", "c1", TRUE, f)
PictureRequest ==
    \E r \in UploadRequests : \E f \in ServiceFilenames :
        Receive(r, "analyze_image", "c1", TRUE, f)

NextService ==
    \/ AdminLogin
    \/ ChatRequest
    \/ ImageRequest
    \/ DocumentRequest
    \/ PictureRequest
    \/ AnalysisDone

SpecService == InitUpload /\ [][NextService]_vars

\* exactly one row is appended, of this owner and type
OneRow(uid, type) ==
    \E row \in searchLogs' \ searchLogs :
        /\ searchLogs' = searchLogs \cup {row}
        /\ row.user_id = uid /\ row.search_type = type

\* C21: each chat, code-chat, generate-image, document-analyze and analyze-image
\* request that passes validation appends exactly one search_logs row, owned by
\* the requester and tagged with the endpoint's type, whether the processing ends
\* in success, in an {error} result or in an exception
C21_OneRowPerRequest ==
    [][/\ \A r \in UploadRequests :
            Finishes(r) => OneRow(upload[r].user, SearchType(upload[r].handler))
       /\ (upload' = upload /\ userActions' # userActions
             /\ resp'.op \in ChatTypes \cup {"image_gen"})
            => OneRow(current_user("c1"), resp'.op)]_vars

\* C22: a document-analyze request that ends in a failure is answered {error:
\* message} with a status outside 2xx, and with 500 when a provider, the network
\* or a missing converter failed; no failure is answered 200
C22_FailureNotOk ==
    [][\A r \in UploadRequests :
         (Finishes(r) /\ upload[r].handler = "document_analyze" /\ resp'.error # "") =>
            /\ resp'.status \notin 200..299
            /\ resp'.error \notin {UnsupportedType, PdfNeedsBucket} => resp'.status = 500]_vars

----------------------------------------------------------------------------
\* The session specification of a client: register, login, logout and check_auth

AuthCheck == \E c \in Clients : CheckAuth(c)

NextAuth ==
    \/ RegisterAnn
    \/ RegisterCommitUser
    \/ RegisterCommitCode
    \/ LoginRequest
    \/ LogoutRequest
    \/ AuthCheck

SpecAuth == Init /\ [][NextAuth]_vars

LoginAnswered(c, status) ==
    /\ \E u \in LoginNames \cup {<<>>} : \E p \in LoginPasswords : Login(c, u, p)
    /\ resp'.status = status

----------------------------------------------------------------------------
\* The poll specification: one call of _wait_for_textract_job, for every course of
\* the job and every duration of the status calls

PollSeconds == {1, 2}
TimeoutSeconds == {2, 3, 5}
CallSeconds == {0, 1, 3}

InitPoll ==
    /\ InitDb /\ InitApp(BareEnv)

WaitCalled == \E p \in PollSeconds : \E t \in TimeoutSeconds : WaitForJob(p, t, 0)
StatusChecked == \E st \in JobStatuses : \E d \in CallSeconds : JobCheck(st, d)
Slept == JobSleep

NextPoll ==
    \/ WaitCalled
    \/ StatusChecked
    \/ Slept

\* the thread of the request keeps running
SpecPoll == InitPoll /\ [][NextPoll]_vars /\ WF_vars(NextPoll)

Elapsed(at) == at - job.start
PollEnded == job.pc \in {"returned", "TimeoutError"}

\* C25: the poll loop always terminates: it returns the status as soon as a check
\* answers SUCCEEDED, FAILED or PARTIAL_SUCCESS, or raises TimeoutError once a check
\* that answers otherwise completes after more than the timeout; a check is issued
\* one poll interval after the one before completed, and none is issued after a
\* check that completed past the deadline
C25_PollTerminates ==
    /\ [][job' # job /\ job'.pc # "check" /\ job.pc = "check" =>
            /\ job'.status \in {"SUCCEEDED", "FAILED", "PARTIAL_SUCCESS"}
                  <=> job'.pc = "returned"
            /\ job'.pc = "TimeoutError" <=>
                  /\ job'.status \notin {"SUCCEEDED", "FAILED", "PARTIAL_SUCCESS"}
                  /\ Elapsed(job'.done) > job.timeout_seconds
            /\ job.checks > 0 =>
                  /\ job'.issued = job.done + job.poll_seconds
                  /\ Elapsed(job.done) <= job.timeout_seconds
                  /\ job.status \notin {"SUCCEEDED", "FAILED", "PARTIAL_SUCCESS"}
         ]_vars
    /\ (job.pc # "idle") ~> PollEnded

\* the deadline passed after several checks of a job that is still in progress
C25_TimedOutAfterChecks ==
    job.pc = "TimeoutError" /\ job.checks >= 3 /\ job.status = "IN_PROGRESS"

----------------------------------------------------------------------------
\* The two-admin specification: the admin and Ann, both admins, both logged in,
\* use the admin API at the same time

InitAdmins ==
    /\ users = Put(Put(<<>>, 1, NewUser(AdminName, AdminEmail, AdminPassword, TRUE, NoCode)),
                   2, NewUser(NameAnn, EmailAnn, PwGood, TRUE, 1))
    /\ codes = Put(<<>>, 1, [expires_at |-> SeedCodeExpiry, used_by_user_id |-> 2])
    /\ searchLogs = {}
    /\ userActions = {}
    /\ loginLogs = {}
    /\ session = [c \in Clients |-> IF c = "c1" THEN 1 ELSE 2]
    /\ req = [c \in Clients |-> Idle]
    /\ resp = Reply("none", 0, "")
    /\ now = 0
    /\ InitApp(BareEnv)

NextAdmins ==
    \/ AdminRequest({"update_user", "block_user", "delete_user", "make_admin", "remove_admin"})
    \/ UserUpdateFlags
    \/ UserUpdateCommit
    \/ UserBlock
    \/ UserDelete
    \/ AdminMake
    \/ AdminRemove

SpecAdmins == InitAdmins /\ [][NextAdmins]_vars

\* C27: from a state with a user that is admin and active, every state reached
\* through update, block, delete, make-admin and remove-admin, two admins'
\* requests in flight at once included, has a user that is admin and active
C27_ActiveAdminRemains ==
    \E u \in DOMAIN users : users[u].is_admin /\ users[u].is_active

----------------------------------------------------------------------------
\* The identifier specification: usernames that have the form of an email address

IdentNames == {NameAnn, EmailAnn, AdminEmail}
IdentInputs ==
    LET none == [username |-> Absent, email |-> Absent, is_active |-> NoFlag,
                 is_admin |-> NoFlag]
    IN  {[none EXCEPT !.username = u] : u \in {NameAnn, EmailAnn}}
        \cup {[none EXCEPT !.email = EmailBobUpper]}

RegisterIdent == \E u \in {NameAnn, AdminEmail} : RegisterCheck("c2", u, EmailAnn, PwGood, 1)
LoginIdent == \E u \in {AdminEmail, EmailAnn} : \E p \in LoginPasswords : Login("c2", u, p)
UserUpdateCalled == AdminGate("c1", "update_user")
UserRenameIdent == \E t \in 1..MaxUsers : \E d \in IdentInputs : UpdateUserCheck("c1", t, d)

NextIdent ==
    \/ RegisterIdent
    \/ RegisterCommitUser
    \/ RegisterCommitCode
    \/ AdminLogin
    \/ LoginIdent
    \/ UserUpdateCalled
    \/ UserRenameIdent
    \/ UserUpdateCommit

SpecIdent == Init /\ [][NextIdent]_vars

\* C28: a login identifier resolves to at most one user: no two distinct users U
\* and V are such that U's username equals V's email, so the username-or-email
\* lookup of login never matches more than one row
C28_IdentifierResolvesOnce ==
    /\ \A u \in DOMAIN users : \A v \in DOMAIN users :
          u # v => users[u].username # users[v].email
    /\ \A name \in IdentNames \cup {AdminName} : Cardinality(LoginMatches(name)) <= 1

----------------------------------------------------------------------------
\* The PDF path of document_analyze, in SpecUpload

PdfPolled(r) ==
    /\ upload[r].pc = "saved" /\ upload[r].handler = "document_analyze"
    /\ SplitExt(upload[r].filename) = Pdf
    /\ upload[r].filepath \in files
    /\ env.TEXTRACT_S3_BUCKET # "" /\ aws.vision_clients

\* C29: on the PDF path the pages are collected and the text model is invoked
\* only if the job ended SUCCEEDED or PARTIAL_SUCCESS; a job that ended FAILED
\* gives an {error} result, and neither collects pages nor invokes the text model
C29_FailedJobStops ==
    [][\A r \in UploadRequests : \A o \in Outcomes :
         (PdfPolled(r) /\ Finish(r, o)) =>
            /\ ({"_collect_textract_pages", "bedrock.invoke_model"} \cap provider' # {})
                  => (o # "timeout" /\ JobStatus(o) \in {"SUCCEEDED", "PARTIAL_SUCCESS"})
            /\ o = "job_failed" =>
                  /\ resp'.error # ""
                  /\ {"_collect_textract_pages", "bedrock.invoke_model"} \cap provider' = {}
      ]_vars

----------------------------------------------------------------------------
\* The refused-update specification: two admins send PUT /users/<id> requests
\* whose first fields are acceptable and whose later fields may not be

NameBob == Strip(NameBobPadded)
BadEmail == <<"x">>
RefusedInputs ==
    LET none == [username |-> Absent, email |-> Absent, is_active |-> NoFlag,
                 is_admin |-> NoFlag]
    IN  {[none EXCEPT !.username = NameBob, !.is_active = "false"],
         [none EXCEPT !.username = NameBob, !.email = BadEmail],
         [none EXCEPT !.email = EmailBobUpper, !.is_admin = "false"],
         [none EXCEPT !.username = NameBob, !.email = EmailBobUpper,
                      !.is_active = "true", !.is_admin = "false"]}

UserUpdateRefusable ==
    \E c \in Clients : \E t \in 1..MaxUsers : \E d \in RefusedInputs : UpdateUserCheck(c, t, d)

NextRefused ==
    \/ AdminRequest({"update_user"})
    \/ UserUpdateRefusable
    \/ UserUpdateCommit

SpecRefused == InitAdmins /\ [][NextRefused]_vars

====
